---- MODULE Spec2Model ----
(***************************************************************************)
(* Pitch-correction pipeline of spartan_tuner (audio/autotuner.py).        *)
(*                                                                         *)
(* Numbers are fixed-point integers:                                       *)
(*   frequencies            Hz                                             *)
(*   log2-frequencies       cents (1200 per octave)                        *)
(*   amount, vibrato        hundredths (Unit = 1.0)                        *)
(*   smoothing coefficient  ten-thousandths (AlphaUnit = 1.0)              *)
(* NaN, PosInf and NegInf are sentinels outside every modelled range.      *)
(***************************************************************************)
EXTENDS Integers, Sequences, FiniteSets, TLC

\* ------------------------------------------------------------------ bounds
MaxFrames == 3

\* ------------------------------------------------------ numeric encoding
NaN == -9999999
PosInf == 8888888
NegInf == -8888888
Unit == 100
AlphaUnit == 10000
AlphaCap == 9999
CentsPerOctave == 1200
HugeSpeed == 10 ^ 8

IsFinite(v) == v \notin {NaN, PosInf, NegInf}

Min(a, b) == IF a < b THEN a ELSE b
Max(a, b) == IF a > b THEN a ELSE b

\* NaN-propagating arithmetic on contour values
Add(a, b) == IF a = NaN \/ b = NaN THEN NaN ELSE a + b
Sub(a, b) == IF a = NaN \/ b = NaN THEN NaN ELSE a - b
\* k is a finite factor in hundredths
Scale(k, a) == IF a = NaN THEN NaN ELSE (k * a) \div Unit

\* ------------------------------------------------------------ sample sets
F0Values == {0, 220, 440}
NoteNames == {"A3", "A4"}
SrValues == {-10, 0, 10}
NdimValues == {1, 2}
SampleCounts == {0, 1}
Modes == {"strict", "force", "dilate"}
ModeStrings == Modes \cup {"bogus"}
DilationValues == {-1, 0, 1, 2}
DefaultDilation == 3
CentsValues == {-1200, 0, 1200}
AmountValues == {NaN, -50, 50, 100, 150}
VibratoValues == {NaN, 0, 50, 100, 150}
SpeedValues == {NaN, PosInf, -40, 0, 40, HugeSpeed}
EnvFrames == {<<10, 40, 20>>, <<80, 20, 60, 30>>}

RECURSIVE SeqsUpTo(_, _)
SeqsUpTo(S, n) ==
    IF n = 0 THEN {<<>>}
    ELSE LET shorter == SeqsUpTo(S, n - 1)
         IN shorter \cup {Append(s, v) : s \in {t \in shorter : Len(t) = n - 1}, v \in S}

F0Contours == SeqsUpTo(F0Values, MaxFrames)

\* --------------------------------------------------------- note_utils.py
note_name_to_freq(name) ==
    CASE name = "A3" -> 220
      [] name = "A4" -> 440

\* ------------------------------------------------ numeric library models
\* np.log2 in cents: exact on powers of two, linear inside each octave
RECURSIVE OctaveOf(_, _)
OctaveOf(f, k) == IF 2 ^ (k + 1) > f THEN k ELSE OctaveOf(f, k + 1)

Log2Q(f) ==
    LET k == OctaveOf(f, 0)
    IN  CentsPerOctave * k + (CentsPerOctave * (f - 2 ^ k)) \div (2 ^ k)

\* np.power(2.0, x) for x in cents, the same piecewise-linear scale
Exp2Q(x) ==
    IF x = NaN THEN NaN
    ELSE LET k == x \div CentsPerOctave
             r == x % CentsPerOctave
         IN  2 ^ k + (2 ^ k * r) \div CentsPerOctave

\* np.exp(-hop_s / tau) in ten-thousandths, tabulated for the sampled
\* (hop in ms, retune speed in ms) pairs
ExpNegQ(hopMs, speedMs) ==
    CASE speedMs = HugeSpeed -> 10000
      [] speedMs = 40 /\ hopMs = 5 -> 8825
      [] speedMs = 40 /\ hopMs = 10 -> 7788
      [] OTHER -> 0

\* int(round(a / b)) for positive integers
RoundDiv(a, b) == (2 * a + b) \div (2 * b)

\* ------------------------------------------------- autotuner.py helpers
\* f0 > 0, frame by frame
VoicedMask(f0) == [i \in 1..Len(f0) |-> f0[i] > 0]

AnyTrue(mask) == \E i \in 1..Len(mask) : mask[i]

\* np.ones_like(voiced_mask, dtype=bool)
OnesLike(mask) == [i \in 1..Len(mask) |-> TRUE]

\* dilation with the slice end one short (i + d instead of i + d + 1)
DilateShortEnd(mask, d) ==
    LET n == Len(mask)
        voiced_idx == {i \in 0..(n - 1) : mask[i + 1]}
        start(i) == IF i - d < 0 THEN 0 ELSE i - d
        end(i) == IF i + d > n THEN n ELSE i + d
    IN  IF n = 0 THEN mask
        ELSE IF d <= 0 THEN mask
        ELSE IF voiced_idx = {} THEN mask
        ELSE [j \in 1..n |->
                mask[j] \/ \E i \in voiced_idx : start(i) <= j - 1 /\ j - 1 < end(i)]

\* _dilate_voiced_mask: indices are 0-based in the code, 1-based here
_dilate_voiced_mask(mask, d) ==
    LET n == Len(mask)
        voiced_idx == {i \in 0..(n - 1) : mask[i + 1]}
        start(i) == IF i - d < 0 THEN 0 ELSE i - d
        end(i) == IF i + d + 1 > n THEN n ELSE i + d + 1
    IN  IF n = 0 THEN mask
        ELSE IF d <= 0 THEN mask
        ELSE IF voiced_idx = {} THEN mask
        ELSE [j \in 1..n |->
                mask[j] \/ \E i \in voiced_idx : start(i) <= j - 1 /\ j - 1 < end(i)]

\* the mode dispatch shared by the three vocoder entry points; callers
\* have already rejected unrecognized mode strings
DeriveMaskOf(mode, voiced, d) ==
    CASE mode = "strict" -> voiced
      [] mode = "force" -> OnesLike(voiced)
      [] mode = "dilate" -> _dilate_voiced_mask(voiced, d)

\* np.interp(idx, voiced_idx, voiced_f0): linear between voiced
\* neighbours, constant beyond the first and the last voiced frame
InterpFill(f0) ==
    LET n == Len(f0)
        V == {i \in 1..n : f0[i] > 0}
        prev(i) == CHOOSE p \in V : p <= i /\ \A q \in V : q <= i => q <= p
        next(i) == CHOOSE p \in V : p >= i /\ \A q \in V : q >= i => q >= p
    IN  [i \in 1..n |->
            IF \A q \in V : q > i THEN f0[next(i)]
            ELSE IF \A q \in V : q < i THEN f0[prev(i)]
            ELSE IF prev(i) = next(i) THEN f0[i]
            ELSE f0[prev(i)]
                 + ((f0[next(i)] - f0[prev(i)]) * (i - prev(i))) \div (next(i) - prev(i))]

\* np.full_like(f0, target_freq)
FullLike(f0, v) == [i \in 1..Len(f0) |-> v]

\* the gap fill of lines 75-82 / 166-173 / 470-477
FillF0(f0, target_freq) ==
    IF AnyTrue(VoicedMask(f0)) THEN InterpFill(f0) ELSE FullLike(f0, target_freq)

\* analysis_f0 of autotune_to_note and autotune_with_formant_shift
AnalysisF0Hard(mode, f0, target_freq) ==
    IF mode \in {"force", "dilate"} THEN FillF0(f0, target_freq) ELSE f0

\* analysis_f0 of autotune_soft_to_note: filled whatever the mode
AnalysisF0Soft(mode, f0, target_freq) == FillF0(f0, target_freq)

\* a contour filled like np.full_like, ignoring the mask
HardContourAllTarget(mask, target_freq) ==
    [i \in 1..Len(mask) |-> target_freq]

\* np.where(new_voiced_mask, target_freq, 0.0)
HardContour(mask, target_freq) ==
    [i \in 1..Len(mask) |-> IF mask[i] THEN target_freq ELSE 0]

\* float(v); non-finite -> 1.0; clamp to [0, 1]
Clamp01(v) == IF ~IsFinite(v) THEN Unit ELSE Max(0, Min(Unit, v))

\* the coefficient without the clamp to [0, 0.9999]
AlphaOfUnclamped(speedMs, hopMs) ==
    IF ~IsFinite(speedMs) \/ speedMs <= 0 THEN 0
    ELSE ExpNegQ(hopMs, speedMs)

\* the smoothing coefficient from retune_speed_ms and the hop
AlphaOf(speedMs, hopMs) ==
    IF ~IsFinite(speedMs) \/ speedMs <= 0 THEN 0
    ELSE Max(0, Min(AlphaCap, ExpNegQ(hopMs, speedMs)))

\* max(3, int(round(0.12 / hop_s)))
VibWindowFrames(hopMs) == Max(3, RoundDiv(120, hopMs))

\* _moving_average: edge padding, then a length-w box filter ("valid")
RECURSIVE WindowSum(_, _, _, _)
WindowSum(x, i, padLeft, k) ==
    IF k < 0 THEN 0
    ELSE Add(x[Max(1, Min(Len(x), i + k - padLeft))], WindowSum(x, i, padLeft, k - 1))

_moving_average(x, n) ==
    IF n <= 1 \/ Len(x) = 0 THEN x
    ELSE LET pad_left == n \div 2
         IN  [i \in 1..Len(x) |->
                LET s == WindowSum(x, i, pad_left, n - 1)
                IN  IF s = NaN THEN NaN ELSE s \div n]

\* the one-pole filter loop: y[i] = alpha*y[i-1] + (1-alpha)*y[i]
RECURSIVE SmoothUpTo(_, _, _)
SmoothUpTo(xd, alpha, i) ==
    IF i = 0 THEN <<>>
    ELSE IF i = 1 THEN <<xd[1]>>
    ELSE LET y == SmoothUpTo(xd, alpha, i - 1)
         IN  Append(y, IF y[i - 1] = NaN \/ xd[i] = NaN THEN NaN
                       ELSE (alpha * y[i - 1] + (AlphaUnit - alpha) * xd[i]) \div AlphaUnit)

Smooth(xd, alpha) == SmoothUpTo(xd, alpha, Len(xd))

\* the desired trajectory with the pull toward the target left out
DesiredNoPull(x_slow, amount_f, target_x) == x_slow

\* x_slow + amount_f * (target_x - x_slow)
Desired(x_slow, amount_f, target_x) ==
    [i \in 1..Len(x_slow) |-> Add(x_slow[i], Scale(amount_f, Sub(target_x, x_slow[i])))]

\* recombination that always adds the whole fast component
RecombineFullVibrato(y, vib_f, x_fast) ==
    [i \in 1..Len(y) |-> Add(y[i], x_fast[i])]

\* y + vib_f * x_fast
Recombine(y, vib_f, x_fast) ==
    [i \in 1..Len(y) |-> Add(y[i], Scale(vib_f, x_fast[i]))]

SeqSub(a, b) == [i \in 1..Len(a) |-> Sub(a[i], b[i])]

\* x = log2(f) on the frames where ok holds, NaN elsewhere
LogContour(f, ok) == [i \in 1..Len(f) |-> IF ok[i] THEN Log2Q(f[i]) ELSE NaN]

\* np.nanmedian(x[voiced])
RECURSIVE SortedInsert(_, _)
SortedInsert(s, v) ==
    IF s = <<>> THEN <<v>>
    ELSE IF v <= Head(s) THEN <<v>> \o s
    ELSE <<Head(s)>> \o SortedInsert(Tail(s), v)

RECURSIVE SortAsc(_)
SortAsc(s) == IF s = <<>> THEN <<>> ELSE SortedInsert(SortAsc(Tail(s)), Head(s))

NanMedian(x) ==
    LET vals == SortAsc(SelectSeq(x, LAMBDA v : v # NaN))
        m == Len(vals)
    IN  IF m = 0 THEN NaN
        ELSE IF m % 2 = 1 THEN vals[(m + 1) \div 2]
        ELSE (vals[m \div 2] + vals[m \div 2 + 1]) \div 2

\* a ratio is a fraction num/den (den > 0), or non-finite (num a sentinel)
Ratio(n, d) == [num |-> n, den |-> d]

\* 2 ** (cents / 1200) for the sampled cents values
CentsRatio(cents) ==
    CASE cents = 1200 -> Ratio(2, 1)
      [] cents = -1200 -> Ratio(1, 2)
      [] cents = 0 -> Ratio(1, 1)

\* interpolation with the two weights swapped
ShiftSwappedWeights(sp_arr, ratio) ==
    IF ~IsFinite(ratio.num) \/ ratio.num <= 0 THEN sp_arr
    ELSE LET length == Len(sp_arr)
             pos(i) == Min(i * ratio.den, (length - 1) * ratio.num)
             fl(i) == pos(i) \div ratio.num
             ce(i) == Min(fl(i) + 1, length - 1)
             w(i) == pos(i) % ratio.num
         IN  [j \in 1..length |->
                LET i == j - 1
                IN  (sp_arr[fl(i) + 1] * w(i) + sp_arr[ce(i) + 1] * (ratio.num - w(i)))
                        \div ratio.num]

\* _shift_spectral_envelope: output bin i reads input position i / ratio,
\* clipped to [0, length-1], linearly interpolated
_shift_spectral_envelope(sp_arr, ratio) ==
    IF ~IsFinite(ratio.num) \/ ratio.num <= 0 THEN sp_arr
    ELSE LET length == Len(sp_arr)
             pos(i) == Min(i * ratio.den, (length - 1) * ratio.num)
             fl(i) == pos(i) \div ratio.num
             ce(i) == Min(fl(i) + 1, length - 1)
             w(i) == pos(i) % ratio.num
         IN  [j \in 1..length |->
                LET i == j - 1
                IN  (sp_arr[fl(i) + 1] * (ratio.num - w(i)) + sp_arr[ce(i) + 1] * w(i))
                        \div ratio.num]

\* the scalar fallbacks and the contour arithmetic shared by
\* autotune_soft_to_note (178-223) and autotune_praat_soft_to_note (311-345);
\* x is the log2 contour, slowIn the contour that is averaged
RetuneContour(x, slowIn, amount, speedMs, vibrato, target_freq, hopMs) ==
    LET amount_f == Clamp01(amount)
        vib_f == Clamp01(vibrato)
        target_x == Log2Q(Max(1, target_freq))
        x_slow == _moving_average(slowIn, VibWindowFrames(hopMs))
        x_fast == SeqSub(x, x_slow)
        x_desired == Desired(x_slow, amount_f, target_x)
        alpha == AlphaOf(speedMs, hopMs)
        y == Smooth(x_desired, alpha)
    IN  [amount_f |-> amount_f, vib_f |-> vib_f, alpha |-> alpha, target_x |-> target_x,
         x |-> x, x_slow |-> x_slow, x_fast |-> x_fast, y |-> y,
         new_x |-> Recombine(y, vib_f, x_fast)]

NoRetune ==
    [amount_f |-> 0, vib_f |-> 0, alpha |-> 0, target_x |-> 0,
     x |-> <<>>, x_slow |-> <<>>, x_fast |-> <<>>, y |-> <<>>, new_x |-> <<>>]

\* hop_s of lines 188-193: median time-axis step (5 ms frames), with the
\* 5 ms fallback when the axis has fewer than two points
HopOf(nFrames) ==
    LET measured == IF nFrames <= 1 THEN NaN ELSE 5
    IN  IF ~IsFinite(measured) \/ measured <= 0 THEN 5 ELSE measured

\* time_step_s default of autotune_praat_soft_to_note, in ms
PraatHopMs == 10

\* np.where(mask, 2 ** new_x, unvoicedValue)
SoftContour(mask, new_x, unvoicedValue) ==
    [i \in 1..Len(mask) |-> IF mask[i] THEN Exp2Q(new_x[i]) ELSE unvoicedValue]

\* new_sp of autotune_to_note (91-104)
HardEnvelope(sp, f0, preserve_formants, target_freq) ==
    IF preserve_formants THEN sp
    ELSE [i \in 1..Len(f0) |->
            IF f0[i] > 0 THEN _shift_spectral_envelope(sp[i], Ratio(target_freq, f0[i]))
            ELSE sp[i]]

\* new_sp of autotune_soft_to_note (227-231) and
\* autotune_with_formant_shift (486-490)
CentsEnvelope(sp, cents) ==
    IF cents # 0
    THEN [i \in 1..Len(sp) |-> _shift_spectral_envelope(sp[i], CentsRatio(cents))]
    ELSE sp

\* ------------------------------------------- the Praat resynthesis tail
\* what the engine does to the calls of lines 357-362: replace[i] is whether
\* the i-th "Replace pitch tier" call raises, resynth whether
\* "Get resynthesis (overlap-add)" raises
TierFaults == [replace : [1..2 -> BOOLEAN], resynth : BOOLEAN]
NoFaults == [replace |-> [i \in 1..2 |-> FALSE], resynth |-> FALSE]

ReplaceTierNoRetry(raises) == [attempts |-> 1, ok |-> ~raises[1]]
\* lines 357-360: try the replace; on an exception call it once more, whose
\* exception is not caught
ReplaceTier(raises) ==
    IF raises[1] THEN [attempts |-> 2, ok |-> ~raises[2]]
                 ELSE [attempts |-> 1, ok |-> TRUE]

\* ------------------------------------------------ cleanliness.py helpers
\* the mask is kept in thousandths: MaskUnit is 1.0
MaskUnit == 1000
MaxBandwidth == 200
MinBandwidth == 10

\* number of frequency bins of the scaled-down transform (n_fft // 2 + 1)
FftBins == 5
\* most frames the transform returns
MaxMaskFrames == 3

\* librosa.fft_frequencies: FftBins centres from 0 to sr / 2
fft_frequencies(sr) ==
    [i \in 1..FftBins |-> ((i - 1) * sr) \div (2 * (FftBins - 1))]

\* np.rint(a / b) for a >= 0, b > 0: to nearest, halves to even
Rint(a, b) ==
    LET q == a \div b
        r == a % b
    IN  IF 2 * r < b THEN q
        ELSE IF 2 * r > b THEN q + 1
        ELSE IF q % 2 = 0 THEN q ELSE q + 1

Abs(x) == IF x < 0 THEN -x ELSE x

\* min(100.0, max(0.0, float(cleanliness_percent))): max(0.0, nan) is 0.0
ClampCleanliness(c) == IF c = NaN THEN 0 ELSE Min(100, Max(0, c))

\* bandwidth_hz, in Hz
BandwidthHz(c) == MaxBandwidth - (c * (MaxBandwidth - MinBandwidth)) \div 100

\* bypass_start_hz: Nyquist when hf_bypass_hz is not finite or not positive,
\* else hf_bypass_hz capped at Nyquist
BypassStartHz(hf, sr) ==
    IF ~IsFinite(hf) \/ hf <= 0 THEN sr \div 2 ELSE Min(hf, sr \div 2)

\* np.exp(-0.5 * (dist / sigma_hz) ** 2) with sigma_hz = bandwidth_hz / 2.355,
\* in thousandths: the exponent u in thousandths, then 2^(-u / ln 2) with
\* the fraction of an octave interpolated linearly
GaussQ(dist, bw) ==
    LET u == (2773 * dist * dist) \div (bw * bw)
    IN  IF u >= 20000 THEN 0
        ELSE LET h == (u * 1443) \div 1000
                 n == h \div 1000
                 r == h % 1000
             IN  (2000 - r) \div (2 * (2 ^ n))

\* k = np.rint(freqs / frame_f0)
HarmonicIndex(freq, frame_f0) == Rint(freq, frame_f0)

OnesColumn == [i \in 1..FftBins |-> MaskUnit]

\* lines 116-120: distance of every bin to its nearest multiple of f0
CombColumn(freqs, frame_f0, bw) ==
    [i \in 1..FftBins |->
        GaussQ(Abs(freqs[i] - HarmonicIndex(freqs[i], frame_f0) * frame_f0), bw)]

\* the column of a frame with the f0 test of line 104 left out
FrameColumnNoF0Test(freqs, voiced, frame_f0, preserve, bw) ==
    IF preserve /\ ~voiced THEN OnesColumn
    ELSE IF bw <= 0 THEN OnesColumn
    ELSE IF frame_f0 = NaN THEN [i \in 1..FftBins |-> 0]
    ELSE CombColumn(freqs, Max(1, frame_f0), bw)

\* lines 98-120: one frame of the loop
FrameColumn(freqs, voiced, frame_f0, preserve, bw) ==
    IF preserve /\ ~voiced THEN OnesColumn
    ELSE IF frame_f0 = NaN \/ frame_f0 <= 0 THEN OnesColumn
    ELSE IF bw <= 0 THEN OnesColumn
    ELSE CombColumn(freqs, frame_f0, bw)

\* unvoiced_frames after the loop
UnvoicedFrames(flags, f0s, preserve) ==
    [t \in 1..Len(f0s) |-> (preserve /\ ~flags[t]) \/ f0s[t] = NaN \/ f0s[t] <= 0]

ClipMaskNone(m) == m
\* np.clip(mask, 0.0, 1.0)
ClipMask(m) ==
    [t \in 1..Len(m) |-> [i \in 1..FftBins |-> Max(0, Min(MaskUnit, m[t][i]))]]

\* the sigma = 2 kernel of gaussian_filter1d, exp(-d^2 / 8) for d = 0..8
\* (truncate = 4.0 gives radius 8), in thousandths
GaussKernel == <<1000, 882, 607, 325, 135, 44, 11, 2, 0>>
KernelRadius == Len(GaussKernel) - 1

\* mode="reflect": (d c b a | a b c d | d c b a), t and the result 1-based
Reflect(t, n) ==
    LET j == (t - 1) % (2 * n)
    IN  IF j < n THEN j + 1 ELSE 2 * n - j

RECURSIVE TapSum(_, _, _, _)
TapSum(m, t, i, d) ==
    IF d > KernelRadius THEN 0
    ELSE GaussKernel[Abs(d) + 1] * m[Reflect(t + d, Len(m))][i] + TapSum(m, t, i, d + 1)

RECURSIVE KernelSum(_)
KernelSum(d) ==
    IF d > KernelRadius THEN 0 ELSE GaussKernel[Abs(d) + 1] + KernelSum(d + 1)

\* a sum of non-negative products in floating point: exactly 0 when every
\* term is 0, else within one quantum (err) of the exact quotient
SmoothRound(exact, err) == IF exact = 0 THEN 0 ELSE exact + err

\* gaussian_filter1d(mask, sigma=2, axis=1): along the frames, bin by bin
gaussian_filter1d(m, err) ==
    [t \in 1..Len(m) |->
        [i \in 1..FftBins |->
            SmoothRound(TapSum(m, t, i, -KernelRadius) \div KernelSum(-KernelRadius), err)]]

ReforceSkipped(m, unvoiced, preserve) == m
\* lines 127-128: mask[:, unvoiced_frames] = 1.0 under preserve_unvoiced
ReforceUnvoiced(m, unvoiced, preserve) ==
    [t \in 1..Len(m) |-> IF preserve /\ unvoiced[t] THEN OnesColumn ELSE m[t]]

BypassAbove(m, freqs, bypass) ==
    [t \in 1..Len(m) |->
        [i \in 1..FftBins |-> IF freqs[i] > bypass THEN MaskUnit ELSE m[t][i]]]
\* line 130: mask[freqs >= bypass_start_hz, :] = 1.0
BypassOverride(m, freqs, bypass) ==
    [t \in 1..Len(m) |->
        [i \in 1..FftBins |-> IF freqs[i] >= bypass THEN MaskUnit ELSE m[t][i]]]

\* lines 82-89: the track cut or edge-padded to n frames
AlignTrack(x, n) ==
    [t \in 1..n |-> IF t <= Len(x) THEN x[t] ELSE x[Len(x)]]

\* ----------------------------------------------- time_stretch.py helpers
\* stretch factors are kept in units of 10^-7
FactorUnit == 10 ^ 7
\* the 1e-6 of ProcessingThread.run, in those units
FactorTolerance == FactorUnit \div (10 ^ 6)

\* the keys of STRETCHERS
StretcherNames ==
    {"audiotsm_wsola", "audiotsm_ola", "audiotsm_phasevocoder",
     "rubberband_default_engine_faster", "rubberband_default_engine_finer",
     "rubberband_percussive_engine_finer", "tdpsola"}

\* the optional package each stretcher imports
BackendOf(m) ==
    CASE m \in {"audiotsm_wsola", "audiotsm_ola", "audiotsm_phasevocoder"} -> "audiotsm"
      [] m = "tdpsola" -> "librosa"
      [] OTHER -> "pylibrb"

LookupOrDefault(m) == IF m \in StretcherNames THEN m ELSE "audiotsm_wsola"
\* STRETCHERS.get(stretch_method): "None" for a name that is not a key
Lookup(m) == IF m \in StretcherNames THEN m ELSE "None"

\* abs(stretch_factor - 1.0) > 1e-6; false for nan, true for an infinity
StretchWanted(f) ==
    \/ f \in {PosInf, NegInf}
    \/ f # NaN /\ Abs(f - FactorUnit) > FactorTolerance

\* _as_mono_float raises: not 1-D, empty, or a non-finite sample
MonoFloatFails(a) == a.ndim # 1 \/ a.nsamples = 0 \/ ~a.finite

\* not np.isfinite(factor) or factor <= 0.0
FactorFails(f) == ~IsFinite(f) \/ f <= 0

\* the checks of a stretcher up to its engine, in the order of the code:
\* the exception raised, or "run" when the engine is reached
StretchEntry(m, a, env) ==
    IF MonoFloatFails(a) \/ a.sr <= 0 THEN "ValueError"
    ELSE IF BackendOf(m) = "audiotsm"
         THEN IF "audiotsm" \notin env THEN "MissingDependencyError"
              ELSE IF FactorFails(a.stretch_factor) THEN "ValueError"
              ELSE "run"
         ELSE IF FactorFails(a.stretch_factor) THEN "ValueError"
              ELSE IF BackendOf(m) \notin env THEN "MissingDependencyError"
              ELSE "run"

PeriodUnclamped(sr, med) == Min(Rint(sr, med), sr \div 50)
\* period = max(16, min(int(round(sr / f0_med)), int(sr // 50)))
PeriodOf(sr, med) == Max(16, Min(Rint(sr, med), sr \div 50))

\* n_out = int(round(float(n_in) * factor))
StretchedLength(n_in, factor) == Rint(n_in * factor, FactorUnit)

\* half = win_length // 2 with win_length = 2 * period
HalfWindow(p) == (2 * p) \div 2
\* a_center = int(round(float(k) * analysis_step)), analysis_step = period / factor
AnalysisCentre(i, p, factor) == Rint(i * p * FactorUnit, factor)
\* s_center = int(k * synthesis_step), synthesis_step = period
SynthesisCentre(i, p) == i * p
\* the two break tests of the loop
LoopBreaks(i, p, factor, n_in, n) ==
    \/ AnalysisCentre(i, p, factor) - HalfWindow(p) >= n_in
    \/ SynthesisCentre(i, p) - HalfWindow(p) >= n
UntrimmedOutput(n, win_length) == n + win_length + 2
\* output = np.zeros(n_out + win_length + 2) ... output[:n_out]
TrimOutput(n, win_length) == Min(n, n + win_length + 2)

\* ------------------------------------------- numpy buffers and aliasing
\* A buffer is its samples (hundredths of full scale) and its dtype.  Two
\* names alias when they hold the same id of the heap; the caller's array
\* is id 1.  External engines (pyworld, parselmouth, librosa, scipy,
\* audiotsm, pylibrb) only read the buffers they are handed.
MaxBufLen == 2
Buffer(data, dtype) == [data |-> data, dtype |-> dtype]
NewArray(h, data, dtype) ==
    [heap |-> Append(h, Buffer(data, dtype)), id |-> Len(h) + 1]
\* np.asarray(a, dtype=dt) and a.astype(dt, copy=False): no copy when the
\* dtype already matches
AsType(h, id, dt) ==
    IF h[id].dtype = dt THEN [heap |-> h, id |-> id]
    ELSE NewArray(h, h[id].data, dt)
\* a[...] = data, a *= w, a += b: a write into the buffer itself
WriteInto(h, id, data) == [h EXCEPT ![id].data = data]
ClipSamples(data) ==
    [i \in 1..Len(data) |-> IF data[i] = NaN THEN NaN ELSE Max(-Unit, Min(Unit, data[i]))]
ClipInPlace(h, id) == [heap |-> WriteInto(h, id, ClipSamples(h[id].data)), id |-> id]
\* np.clip(a, -1.0, 1.0) returns a new array
Clip(h, id) == NewArray(h, ClipSamples(h[id].data), h[id].dtype)
AllFinite(data) == \A i \in 1..Len(data) : IsFinite(data[i])
Zeros(n) == [i \in 1..n |-> 0]
\* what a core call leaves behind: the heap, the id it returns (0 when it
\* raised) and the ids it handed to an engine
Ret(h, id, reads) == [heap |-> h, out |-> id, reads |-> reads]
Raised(h, reads) == [heap |-> h, out |-> 0, reads |-> reads]

\* time_stretch._as_mono_float; id 0 when it raises
as_mono_float(h, id) ==
    IF Len(h[id].data) = 0 THEN [heap |-> h, id |-> 0]
    ELSE LET a == AsType(h, id, "float32") IN
         IF ~AllFinite(a.heap[a.id].data) THEN [heap |-> a.heap, id |-> 0]
         ELSE LET c == Clip(a.heap, a.id) IN AsType(c.heap, c.id, "float32")

\* path: "raise" when an argument check or the engine raises, "early" when
\* the operation takes one of its pass-through returns, "full" otherwise;
\* e: the samples the engine produced
Vocoder(h, soft, path, e) ==
    IF path = "raise" THEN Raised(h, {})
    ELSE LET x == AsType(h, 1, "float64") IN
         IF soft /\ path = "early" THEN Ret(x.heap, x.id, {x.id})
         ELSE LET o == NewArray(x.heap, e, "float64") IN Ret(o.heap, o.id, {x.id})

autotune_praat(h, path, e) ==
    IF path = "raise" THEN Raised(h, {})
    ELSE LET x == AsType(h, 1, "float64") IN
         IF Len(h[1].data) = 0 THEN Ret(x.heap, x.id, {})
         ELSE IF path = "early" THEN Ret(x.heap, x.id, {x.id})
         ELSE LET o == NewArray(x.heap, e, "float64") IN Ret(o.heap, o.id, {x.id})

apply_cleanliness_buf(h, path, e) ==
    IF path = "raise" THEN Raised(h, {})
    ELSE IF path = "early" THEN Ret(h, 1, {})
    ELSE LET s == AsType(h, 1, "float32")
             o == NewArray(s.heap, e, "float32")
             r == AsType(o.heap, o.id, h[1].dtype)
         IN  Ret(r.heap, r.id, {s.id})

apply_iir_filter(h, e) ==
    IF Len(h[1].data) = 0 THEN Ret(h, 1, {})
    ELSE LET x == AsType(h, 1, "float64")
             y == NewArray(x.heap, e, "float64")
             r == AsType(y.heap, y.id, h[1].dtype)
         IN  Ret(r.heap, r.id, {x.id})

\* apply_low_cut and apply_high_shelf
ShelfOrCut(h, path, e) ==
    IF path = "raise" THEN Raised(h, {})
    ELSE IF path = "early" THEN Ret(h, 1, {})
    ELSE apply_iir_filter(h, e)

PeakOf(data) ==
    IF ~AllFinite(data) THEN NaN
    ELSE LET mags == {Abs(data[i]) : i \in 1..Len(data)}
         IN  CHOOSE p \in mags : \A q \in mags : q <= p
Scaled(data, peak) ==
    [i \in 1..Len(data) |-> IF peak = NaN THEN NaN ELSE (data[i] * 99) \div peak]
normalize_audio(h) ==
    LET d == h[1].data IN
    IF Len(d) = 0 THEN Raised(h, {})
    ELSE IF PeakOf(d) = 0 THEN Ret(h, 1, {})
    ELSE LET n == NewArray(h, Scaled(d, PeakOf(d)), "float64")
             r == AsType(n.heap, n.id, h[1].dtype)
         IN  Ret(r.heap, r.id, {})

\* the audiotsm back ends (final = FALSE) and the pylibrb ones, whose
\* output passes through _as_mono_float again
EngineStretch(h, final, path, e) ==
    LET a == as_mono_float(h, 1) IN
    IF a.id = 0 \/ path = "raise" THEN Raised(a.heap, {})
    ELSE LET o == NewArray(a.heap, e, "float32")
             r == IF final THEN as_mono_float(o.heap, o.id) ELSE o
         IN  Ret(r.heap, r.id, {a.id})

tdpsola_buf(h, path, e) ==
    LET a == as_mono_float(h, 1) IN
    IF a.id = 0 \/ path = "raise" THEN Raised(a.heap, {})
    ELSE LET output == NewArray(a.heap, Zeros(Len(e)), "float32")
             seg == NewArray(output.heap, Zeros(Len(e)), "float32")
             copied == WriteInto(seg.heap, seg.id, e)
             added == WriteInto(copied, output.id, e)
             r == as_mono_float(added, output.id)
         IN  Ret(r.heap, r.id, {a.id})

\* ---------------------------------------------- main_window.py scheduling
\* Audio buffers are named by the load that produced them (0 is None),
\* settings by the version of the settings panel (0 is None), and a result
\* by the run that computed it.
MaxLoads == 2
MaxSettings == 3
MaxRuns == 3
NoResult == [audio |-> 0, settings |-> 0, token |-> 0]
\* ProcessingThread(self.original_audio, self.sample_rate, settings)
ProcessingThread(audio, settings, token) ==
    [state |-> "running", audio |-> audio, settings |-> settings, token |-> token]
\* QThread.isRunning(): true from start() until run() has returned, so
\* still true for a while after run() emitted its last signal
isRunning(th) == th.state \in {"running", "emitted"}
thread_running(m) ==
    m.threads # <<>> /\ isRunning(m.threads[Len(m.threads)])

schedule_processing(m) ==
    IF m.original_audio = 0 THEN m ELSE [m EXCEPT !.debounce_armed = TRUE]

start_processing_with_settings(m, settings) ==
    IF m.original_audio = 0 THEN m
    ELSE IF thread_running(m)
    THEN [m EXCEPT !.processing_pending = TRUE, !.pending_settings = settings]
    ELSE LET token == m.processing_token + 1 IN
         [m EXCEPT !.processing_token = token,
                   !.current_processing_token = token,
                   !.threads = Append(@, ProcessingThread(m.original_audio, settings, token))]

on_processing_finished(m, result, token) ==
    IF token # m.current_processing_token THEN m
    ELSE LET m1 == [m EXCEPT !.latest_completed_token = token,
                             !.pending_processed_result = result,
                             !.apply_armed = TRUE]
         IN  IF m1.processing_pending /\ m1.pending_settings # 0
             THEN start_processing_with_settings(
                      [m1 EXCEPT !.processing_pending = FALSE, !.pending_settings = 0],
                      m1.pending_settings)
             ELSE m1

apply_latest_processed_result(m) ==
    IF m.latest_completed_token # m.current_processing_token THEN m
    ELSE IF m.pending_processed_result = NoResult THEN m
    ELSE [m EXCEPT !.processed_audio = m.pending_processed_result,
                   !.pending_processed_result = NoResult]

on_processing_error(m, token) ==
    IF token # m.current_processing_token THEN m
    ELSE IF m.processing_pending
    THEN [m EXCEPT !.processing_pending = FALSE, !.pending_settings = 0]
    ELSE m

on_load_finished(m, audio) ==
    schedule_processing([m EXCEPT !.original_audio = audio, !.processed_audio = NoResult])

\* ------------------------------------------------ LoadAudioThread.run
MaxLoadRequests == 3
\* def get_predominant_pitch(audio, sr=44100)
PitchParams == {"audio", "sr"}
\* get_predominant_pitch(audio, int(sr), fast=bool(self.fast_pitch))
PitchKeywords == {"fast"}
\* Python raises TypeError for a keyword the callee does not declare
RaisesTypeError(params, keywords) == ~(keywords \subseteq params)
NoThread == [state |-> "none", file |-> 0, fast_pitch |-> FALSE, read |-> "none", emitted |-> "none"]
LoadAudioThread(file, fast_pitch) ==
    [state |-> "reading", file |-> file, fast_pitch |-> fast_pitch, read |-> "none", emitted |-> "none"]

\* ------------------------------------------------ the analysis and its key
\* (buffer identity, sample rate, voicing mode, dilation parameter)
MaxRequests == 3
AnalysisKey(buffer, sr, mode, dilation) ==
    [buffer |-> buffer, sample_rate |-> sr, voicing_mode |-> mode, dilation_frames |-> dilation]
\* the pyworld calls one correction request makes for its key: dio and
\* stonemask, then cheaptrick and d4c unless voicing_mode is rejected
AnalysisCalls(key) ==
    LET call(name) == [engine |-> name, key |-> key]
    IN  <<call("dio"), call("stonemask")>>
            \o (IF key.voicing_mode \in Modes THEN <<call("cheaptrick"), call("d4c")>> ELSE <<>>)

\* ------------------------------------------------- AnalysisCache (spec 4.1)
\* The cache as an ordered list of entries, least recently used first.
Capacity == 4
MaxCacheCalls == 6
NoKey == [buffer |-> 0, sample_rate |-> 0, voicing_mode |-> "none", dilation_frames |-> 0]
AnalysisResult(key) == [analysed |-> key]
CacheKeysOf(c) == {c[i].key : i \in 1..Len(c)}
IndexOfKey(c, key) == CHOOSE i \in 1..Len(c) : c[i].key = key
WithoutIndex(c, i) == SubSeq(c, 1, i - 1) \o SubSeq(c, i + 1, Len(c))
NoPromote(c, i) == c
\* a hit makes the entry the most recently used
Promote(c, i) == Append(WithoutIndex(c, i), c[i])
\* insert, then evict the least recently used when over capacity
InsertEvict(c, e) ==
    LET grown == Append(c, e)
    IN  IF Len(grown) > Capacity
        THEN [cache |-> Tail(grown), evicted |-> Head(grown).key]
        ELSE [cache |-> grown, evicted |-> NoKey]
get_or_compute(c, key, analysisFails) ==
    IF key.voicing_mode \notin Modes
    THEN [cache |-> c, outcome |-> "InvalidArgument", evicted |-> NoKey]
    ELSE IF key \in CacheKeysOf(c)
    THEN [cache |-> Promote(c, IndexOfKey(c, key)), outcome |-> "hit", evicted |-> NoKey]
    ELSE IF analysisFails
    THEN [cache |-> c, outcome |-> "AnalysisError", evicted |-> NoKey]
    ELSE LET r == InsertEvict(c, [key |-> key, result |-> AnalysisResult(key)])
         IN  [cache |-> r.cache, outcome |-> "computed", evicted |-> r.evicted]

\* ---------------------------------------------- preview_cleanliness_mask
\* lines 280-293: an empty track becomes n_frames frames of fill, any other
\* track is cut or padded as in apply_cleanliness
PreviewTrack(track, n, fill) ==
    IF Len(track) = 0 /\ n > 0 THEN [t \in 1..n |-> fill] ELSE AlignTrack(track, n)
\* lines 310-330: the loop body, the same text as lines 98-120
PreviewColumn(freqs, voiced, frame_f0, preserve_unvoiced, bw) ==
    FrameColumn(freqs, voiced, frame_f0, preserve_unvoiced, bw)
\* lines 295-336 on the track pyin reports for the audio
preview_cleanliness_mask(a, n, track_f0, track_voiced) ==
    LET freqs == fft_frequencies(a.sr)
        pf0 == PreviewTrack(track_f0, n, NaN)
        pvoiced == PreviewTrack(track_voiced, n, FALSE)
        bw == BandwidthHz(ClampCleanliness(a.cleanliness_percent))
        raw == [t \in 1..n |->
                  PreviewColumn(freqs, pvoiced[t], pf0[t], a.preserve_unvoiced, bw)]
    IN  BypassOverride(ClipMask(raw), freqs, BypassStartHz(a.hf_bypass_hz, a.sr))

\* ------------------------------------- note_utils.py: names and numbers
\* A str is a sequence of one-character strings.
MaxMidi == 140
MaxOctave == 11
NOTE_NAMES_SHARP ==
    << <<"C">>, <<"C", "#">>, <<"D">>, <<"D", "#">>, <<"E">>, <<"F">>, <<"F", "#">>,
       <<"G">>, <<"G", "#">>, <<"A">>, <<"A", "#">>, <<"B">> >>
NAME_TO_PC ==
    { << <<"C">>, 0 >>, << <<"B", "#">>, 0 >>, << <<"C", "#">>, 1 >>, << <<"D", "B">>, 1 >>,
      << <<"D">>, 2 >>, << <<"D", "#">>, 3 >>, << <<"E", "B">>, 3 >>, << <<"E">>, 4 >>,
      << <<"F", "B">>, 4 >>, << <<"E", "#">>, 5 >>, << <<"F">>, 5 >>, << <<"F", "#">>, 6 >>,
      << <<"G", "B">>, 6 >>, << <<"G">>, 7 >>, << <<"G", "#">>, 8 >>, << <<"A", "B">>, 8 >>,
      << <<"A">>, 9 >>, << <<"A", "#">>, 10 >>, << <<"B", "B">>, 10 >>, << <<"B">>, 11 >>,
      << <<"C", "B">>, 11 >> }
DigitChars == <<"0", "1", "2", "3", "4", "5", "6", "7", "8", "9">>
DigitValue(c) == (CHOOSE d \in 1..10 : DigitChars[d] = c) - 1
IsDigit(c) == \E d \in 1..10 : DigitChars[d] = c
\* str.upper() on the characters the pattern lets through
Upper(c) ==
    CASE c = "a" -> "A" [] c = "b" -> "B" [] c = "c" -> "C" [] c = "d" -> "D"
      [] c = "e" -> "E" [] c = "f" -> "F" [] c = "g" -> "G" [] OTHER -> c

\* f"{n}" of an int
RECURSIVE DigitsOf(_)
DigitsOf(n) ==
    IF n < 10 THEN <<DigitChars[n + 1]>>
    ELSE Append(DigitsOf(n \div 10), DigitChars[(n % 10) + 1])
FormatInt(n) == IF n < 0 THEN <<"-">> \o DigitsOf(-n) ELSE DigitsOf(n)

\* int(s) of an optional minus sign and decimal digits
RECURSIVE DigitsValue(_)
DigitsValue(s) ==
    IF s = <<>> THEN 0
    ELSE 10 * DigitsValue(SubSeq(s, 1, Len(s) - 1)) + DigitValue(s[Len(s)])
ParseInt(s) == IF s[1] = "-" THEN -DigitsValue(Tail(s)) ELSE DigitsValue(s)

\* midi_to_freq on the numbers a whole number of octaves from 69, where
\* 2.0 ** ((midi - 69.0) / 12.0) is an exact power of two
midi_to_freq(m) ==
    LET k == (m - 69) \div 12
    IN  IF k >= 0 THEN 440 * 2 ^ k ELSE 440 \div 2 ^ (-k)

TruncDiv(a, b) == IF a < 0 THEN -((-a) \div b) ELSE a \div b
\* Python's //, which rounds toward minus infinity
FloorDiv(a, b) == a \div b

midi_to_note_name(m) ==
    LET note == NOTE_NAMES_SHARP[(m % 12) + 1]
        octave == FloorDiv(m, 12) - 1
    IN  note \o FormatInt(octave)

\* first position at or after i that holds no white space
RECURSIVE SkipSpace(_, _)
SkipSpace(s, i) == IF i <= Len(s) /\ s[i] = " " THEN SkipSpace(s, i + 1) ELSE i
\* first position at or after i that holds no digit
RECURSIVE SkipDigits(_, _)
SkipDigits(s, i) == IF i <= Len(s) /\ IsDigit(s[i]) THEN SkipDigits(s, i + 1) ELSE i

\* _NOTE_RE.match(name): ^\s*([A-Ga-g])\s*([#bB]?)\s*(-?\d+)\s*$
NoteMatch(s) ==
    LET l == SkipSpace(s, 1)
        a == SkipSpace(s, l + 1)
        hasAcc == a <= Len(s) /\ s[a] \in {"#", "b", "B"}
        n == SkipSpace(s, IF hasAcc THEN a + 1 ELSE a)
        d == IF n <= Len(s) /\ s[n] = "-" THEN n + 1 ELSE n
        e == SkipDigits(s, d)
    IN  IF /\ l <= Len(s)
           /\ s[l] \in {"A", "B", "C", "D", "E", "F", "G", "a", "b", "c", "d", "e", "f", "g"}
           /\ e > d
           /\ SkipSpace(s, e) = Len(s) + 1
        THEN [ok |-> TRUE, letter |-> s[l],
              accidental |-> IF hasAcc THEN <<s[a]>> ELSE <<>>,
              octave_str |-> SubSeq(s, n, e - 1)]
        ELSE [ok |-> FALSE, letter |-> "", accidental |-> <<>>, octave_str |-> <<>>]

\* the result of note_name_to_midi: a number, or ValueError raised
note_name_to_midi(name) ==
    LET match == NoteMatch(name)
        pitch == <<Upper(match.letter)>> \o [i \in 1..Len(match.accidental) |-> Upper(match.accidental[i])]
    IN  IF ~match.ok \/ ~\E e \in NAME_TO_PC : e[1] = pitch
        THEN [ok |-> FALSE, midi |-> 0]
        ELSE LET pclass == (CHOOSE e \in NAME_TO_PC : e[1] = pitch)[2]
             IN  [ok |-> TRUE, midi |-> (ParseInt(match.octave_str) + 1) * 12 + pclass]

\* ------------------------------------------------------------------ state
VARIABLES
    pc,              \* position inside the running entry point
    entry,           \* "hard" | "formant" | "soft" | "praat"
    args,            \* the call's arguments
    outcome,         \* what the caller gets
    engineCalls,     \* calls made to the external engine so far
    f0,              \* raw f0 (dio + stonemask, or the Praat pitch tier)
    voiced_mask, new_voiced_mask, analysis_f0,
    envF0,           \* the f0 passed to cheaptrick and d4c
    sp, new_sp,
    retune,          \* the soft-retune intermediates
    new_f0,
    synthF0,         \* the f0 passed to pw.synthesize
    replaceAttempts, \* "Replace pitch tier" calls made
    tierFaults,      \* which Praat calls of the resynthesis tail raise
    resynthRequested, \* "Get resynthesis (overlap-add)" was called
    sp_frame, ratio, shifted,  \* one _shift_spectral_envelope application
    cargs,           \* the arguments of apply_cleanliness
    n_frames,        \* S.shape[1]
    clean_f0, voiced_flag,   \* the pitch track, aligned to n_frames
    unvoiced_frames,
    comb,            \* the mask after the per-frame loop, comb[t][i]
    fpErr,           \* rounding error of the temporal smoothing
    mask,            \* the mask multiplied into the magnitudes
    stftCalls, pyinCalls, istftCalls,
    sargs,           \* method name, audio, sr and stretch_factor of a stretch
    installed,       \* the optional back ends that can be imported
    lookups,         \* STRETCHERS lookups made
    f0_med, period, n_out,   \* tdpsola locals
    outLen,          \* samples of the buffer a stretcher returned
    report,          \* what the caller of the core tells its user
    heap,            \* the numpy buffers alive during one core call, by id
    given,           \* the caller's buffer as it was when the call began
    bufOp,           \* the core operation called on buffer 1
    bufOut,          \* id of the returned buffer, 0 when the call raised
    engineReads,     \* ids of the buffers handed to an external engine
    original_audio,  \* MainWindow.original_audio
    processed_audio, \* MainWindow.processed_audio
    debounce_armed,  \* _processing_debounce_timer is active
    apply_armed,     \* _apply_processed_timer is active
    threads,         \* every ProcessingThread created; the last is _processing_thread
    processing_pending, pending_settings,
    processing_token, current_processing_token, latest_completed_token,
    pending_processed_result,
    ui_settings,     \* what settings_panel.get_settings() returns
    sigQueue,        \* finished/error signals queued to the main thread
    lastRequested,   \* settings of the latest processing request
    loads,           \* loads delivered so far
    load_thread,     \* MainWindow._load_thread
    loadQueue,       \* signals of load threads queued to the main thread
    loadRequests,    \* calls of _load_audio_file so far
    ignoredLoads,    \* of which returned at the isRunning() test
    errorBoxes,      \* QMessageBox.critical shown by _on_load_error
    requestLog,      \* the correction requests made, in order
    engineLog,       \* the pyworld analysis calls they caused
    cache,           \* AnalysisCache entries, least recently used first
    cacheBefore,     \* the entries before the latest get_or_compute
    cacheOutcome, cacheEvicted,   \* what the latest get_or_compute did
    cacheCalls,
    useLog,          \* keys of the successful get_or_compute calls, in order
    preview_mask,    \* what preview_cleanliness_mask returned
    ola_k,           \* tdpsola's loop counter k
    nt_dir,          \* which round trip was made: "number" or "name"
    nt_in, nt_mid, nt_out   \* its argument, the value in between, its result

callVars == <<pc, entry, args, outcome, engineCalls>>
frameVars == <<f0, voiced_mask, new_voiced_mask, analysis_f0, envF0, sp>>
tierVars == <<replaceAttempts, tierFaults, resynthRequested>>
outVars == <<new_sp, retune, new_f0, synthF0, tierVars>>
shiftVars == <<sp_frame, ratio, shifted>>
cleanVars == <<cargs, n_frames, clean_f0, voiced_flag, unvoiced_frames, comb, fpErr,
               mask, stftCalls, pyinCalls, istftCalls>>
\* what the autotuner entry points leave alone
stretchVars == <<sargs, installed, lookups, f0_med, period, n_out, outLen, report>>
bufVars == <<heap, given, bufOp, bufOut, engineReads>>
winVars == <<original_audio, processed_audio, debounce_armed, apply_armed, threads,
            processing_pending, pending_settings, processing_token,
            current_processing_token, latest_completed_token, pending_processed_result>>
uiVars == <<winVars, ui_settings, sigQueue, lastRequested, loads>>
loadVars == <<load_thread, loadQueue, loadRequests, ignoredLoads, errorBoxes>>
reqVars == <<requestLog, engineLog>>
cacheVars == <<cache, cacheBefore, cacheOutcome, cacheEvicted, cacheCalls, useLog>>
previewVars == <<preview_mask>>
\* what the tdpsola loop leaves alone outside the core
appVars == <<bufVars, uiVars, loadVars, reqVars, cacheVars, previewVars>>
noteVars == <<nt_dir, nt_in, nt_mid, nt_out>>
extraVars == <<appVars, ola_k, noteVars>>
otherVars == <<cleanVars, stretchVars, extraVars>>
\* what apply_cleanliness leaves alone
tunerVars == <<args, engineCalls, frameVars, outVars, shiftVars>>
vars == <<callVars, frameVars, outVars, shiftVars, otherVars>>
\* the signal-processing core of the first five specifications
coreVars == <<callVars, frameVars, outVars, shiftVars, cleanVars, stretchVars>>

VocoderEntries == {"hard", "formant", "soft"}

Init ==
    /\ pc = "idle"
    /\ entry = "none"
    /\ args = <<>>
    /\ outcome = "none"
    /\ engineCalls = 0
    /\ f0 = <<>>
    /\ voiced_mask = <<>>
    /\ new_voiced_mask = <<>>
    /\ analysis_f0 = <<>>
    /\ envF0 = <<>>
    /\ sp = <<>>
    /\ new_sp = <<>>
    /\ retune = NoRetune
    /\ new_f0 = <<>>
    /\ synthF0 = <<>>
    /\ replaceAttempts = 0
    /\ tierFaults = NoFaults
    /\ resynthRequested = FALSE
    /\ sp_frame = <<>>
    /\ ratio = Ratio(1, 1)
    /\ shifted = <<>>
    /\ cargs = <<>>
    /\ n_frames = 0
    /\ clean_f0 = <<>>
    /\ voiced_flag = <<>>
    /\ unvoiced_frames = <<>>
    /\ comb = <<>>
    /\ fpErr = 0
    /\ mask = <<>>
    /\ stftCalls = 0
    /\ pyinCalls = 0
    /\ istftCalls = 0
    /\ sargs = <<>>
    /\ installed = {}
    /\ lookups = 0
    /\ f0_med = 0
    /\ period = 0
    /\ n_out = 0
    /\ outLen = -1
    /\ report = "none"
    /\ heap = <<>>
    /\ given = <<>>
    /\ bufOp = "none"
    /\ bufOut = 0
    /\ engineReads = {}
    /\ original_audio = 0
    /\ processed_audio = NoResult
    /\ debounce_armed = FALSE
    /\ apply_armed = FALSE
    /\ threads = <<>>
    /\ processing_pending = FALSE
    /\ pending_settings = 0
    /\ processing_token = 0
    /\ current_processing_token = 0
    /\ latest_completed_token = 0
    /\ pending_processed_result = NoResult
    /\ ui_settings = 1
    /\ sigQueue = <<>>
    /\ lastRequested = 0
    /\ loads = 0
    /\ load_thread = NoThread
    /\ loadQueue = <<>>
    /\ loadRequests = 0
    /\ ignoredLoads = 0
    /\ errorBoxes = 0
    /\ requestLog = <<>>
    /\ engineLog = <<>>
    /\ cache = <<>>
    /\ cacheBefore = <<>>
    /\ cacheOutcome = "none"
    /\ cacheEvicted = NoKey
    /\ cacheCalls = 0
    /\ useLog = <<>>
    /\ preview_mask = <<>>
    /\ ola_k = 0
    /\ nt_dir = "none"
    /\ nt_in = 0
    /\ nt_mid = 0
    /\ nt_out = 0

\* ------------------------------------------------------- argument sets
ModeArgs ==
    {<<m, DefaultDilation>> : m \in ModeStrings \ {"dilate"}}
        \cup {<<"dilate", d>> : d \in DilationValues}

MakeArgs(sr, ndim, n, note, md, pf, cents, amount, speed, vib, pm) ==
    [sr |-> sr, ndim |-> ndim, nsamples |-> n, target_note |-> note,
     voicing_mode |-> md[1], dilation_frames |-> md[2],
     preserve_formants |-> pf, formant_shift_cents |-> cents,
     amount |-> amount, retune_speed_ms |-> speed, preserve_vibrato |-> vib,
     parselmouth |-> pm]

\* the arguments of each entry point; parameters it does not take are
\* held at a fixed value
ArgsOf(e, amounts, speeds, vibs, modeArgs, centsSet) ==
    CASE e = "hard" ->
           {MakeArgs(sr, nd, n, note, md, pf, 0, Unit, 40, Unit, TRUE) :
              sr \in SrValues, nd \in NdimValues, n \in SampleCounts,
              note \in NoteNames, md \in ModeArgs, pf \in BOOLEAN}
      [] e = "formant" ->
           {MakeArgs(sr, nd, n, note, md, TRUE, c, Unit, 40, Unit, TRUE) :
              sr \in SrValues, nd \in NdimValues, n \in SampleCounts,
              note \in NoteNames, md \in ModeArgs, c \in CentsValues}
      [] e = "soft" ->
           {MakeArgs(sr, nd, n, note, md, TRUE, c, a, s, v, TRUE) :
              sr \in SrValues, nd \in NdimValues, n \in SampleCounts,
              note \in NoteNames, md \in modeArgs, c \in centsSet,
              a \in amounts, s \in speeds, v \in vibs}
      [] e = "praat" ->
           {MakeArgs(sr, nd, n, note, <<"strict", DefaultDilation>>, TRUE, 0, a, s, v, pm) :
              sr \in SrValues, nd \in NdimValues, n \in SampleCounts,
              note \in NoteNames, a \in amounts, s \in speeds, v \in vibs,
              pm \in BOOLEAN}

target_freq == note_name_to_freq(args.target_note)

\* ---------------------------------------------------------------- actions
\* a duration check that only rejects negative lengths
TooShortNever(a) == a.nsamples < 0

\* duration_s < 0.1 with duration_s = nsamples / sr; the sample rates are
\* in units that make 0.1 s one sample at sr = 10
TooShort(a) == 10 * a.nsamples < a.sr

\* entry of the three vocoder entry points: the argument checks of
\* lines 41-50 / 138-147 / 440-449

CallVocoder(e, a) ==
    /\ pc = "idle"
    /\ e \in VocoderEntries
    /\ entry' = e
    /\ args' = a
    /\ IF a.sr <= 0 \/ a.ndim # 1 \/ TooShort(a)
       THEN pc' = "done" /\ outcome' = "ValueError"
       ELSE pc' = "extract" /\ outcome' = "none"
    /\ UNCHANGED <<engineCalls, frameVars, outVars, shiftVars, otherVars>>

\* entry of autotune_praat_soft_to_note: lines 251-270
CallPraat(a) ==
    /\ pc = "idle"
    /\ entry' = "praat"
    /\ args' = a
    /\ IF ~a.parselmouth THEN pc' = "done" /\ outcome' = "RuntimeError"
       ELSE IF a.sr <= 0 \/ a.ndim # 1 THEN pc' = "done" /\ outcome' = "ValueError"
       ELSE IF a.nsamples = 0 THEN pc' = "done" /\ outcome' = "input"
       ELSE pc' = "praat_analyse" /\ outcome' = "none"
    /\ UNCHANGED <<engineCalls, frameVars, outVars, shiftVars, otherVars>>

\* pw.dio then pw.stonemask: either may raise, otherwise the raw f0
ExtractF0 ==
    /\ pc = "extract"
    /\ \/ \E made \in {1, 2} :
            /\ engineCalls' = made
            /\ pc' = "done"
            /\ outcome' = "EngineError"
            /\ f0' = f0
       \/ \E c \in F0Contours :
            /\ f0' = c
            /\ engineCalls' = 2
            /\ pc' = "mask"
            /\ outcome' = outcome
    /\ UNCHANGED <<entry, args, voiced_mask, new_voiced_mask, analysis_f0, envF0, sp,
                   outVars, shiftVars, otherVars>>

\* the voicing policy: mask by mode, then the analysis f0
\* (lines 63-82 / 155-173 / 458-477)
DeriveMask ==
    /\ pc = "mask"
    /\ voiced_mask' = VoicedMask(f0)
    /\ IF args.voicing_mode \notin Modes
       THEN /\ pc' = "done"
            /\ outcome' = "ValueError"
            /\ UNCHANGED <<new_voiced_mask, analysis_f0>>
       ELSE /\ new_voiced_mask' =
                 DeriveMaskOf(args.voicing_mode, VoicedMask(f0), args.dilation_frames)
            /\ analysis_f0' =
                 IF entry = "soft" THEN AnalysisF0Soft(args.voicing_mode, f0, target_freq)
                 ELSE AnalysisF0Hard(args.voicing_mode, f0, target_freq)
            /\ pc' = "estimate"
            /\ outcome' = outcome
    /\ UNCHANGED <<entry, args, engineCalls, f0, envF0, sp, outVars, shiftVars, otherVars>>

\* pw.cheaptrick then pw.d4c on analysis_f0 (lines 84-85 / 175-176 / 479-480)
Estimate ==
    /\ pc = "estimate"
    /\ envF0' = analysis_f0
    /\ \/ \E made \in {3, 4} :
            /\ engineCalls' = made
            /\ pc' = "done"
            /\ outcome' = "EngineError"
            /\ sp' = sp
       \/ \E e \in EnvFrames :
            /\ sp' = [i \in 1..Len(f0) |-> e]
            /\ engineCalls' = 4
            /\ pc' = "contour"
            /\ outcome' = outcome
    /\ UNCHANGED <<entry, args, f0, voiced_mask, new_voiced_mask, analysis_f0,
                   outVars, shiftVars, otherVars>>

\* autotune_to_note lines 87-104
ContourHard ==
    /\ pc = "contour"
    /\ entry = "hard"
    /\ new_f0' = HardContour(new_voiced_mask, target_freq)
    /\ new_sp' = HardEnvelope(sp, f0, args.preserve_formants, target_freq)
    /\ pc' = "synth"
    /\ UNCHANGED <<entry, args, outcome, engineCalls, frameVars, retune, synthF0,
                   tierVars, shiftVars, otherVars>>

\* autotune_with_formant_shift lines 482-490
ContourFormant ==
    /\ pc = "contour"
    /\ entry = "formant"
    /\ new_f0' = HardContour(new_voiced_mask, target_freq)
    /\ new_sp' = CentsEnvelope(sp, args.formant_shift_cents)
    /\ pc' = "synth"
    /\ UNCHANGED <<entry, args, outcome, engineCalls, frameVars, retune, synthF0,
                   tierVars, shiftVars, otherVars>>

\* autotune_soft_to_note lines 178-231
ContourSoft ==
    /\ pc = "contour"
    /\ entry = "soft"
    /\ LET valid == VoicedMask(analysis_f0)
           x == LogContour(analysis_f0, valid)
       IN  IF ~\E i \in 1..Len(x) : x[i] # NaN
           THEN \* return audio_arr
                /\ pc' = "done"
                /\ outcome' = "input"
                /\ UNCHANGED <<retune, new_f0, new_sp>>
           ELSE /\ retune' = RetuneContour(x, x, args.amount, args.retune_speed_ms,
                                           args.preserve_vibrato, target_freq,
                                           HopOf(Len(f0)))
                /\ new_f0' = SoftContour(new_voiced_mask, retune'.new_x, 0)
                /\ new_sp' = CentsEnvelope(sp, args.formant_shift_cents)
                /\ pc' = "synth"
                /\ outcome' = outcome
    /\ UNCHANGED <<entry, args, engineCalls, frameVars, synthF0, tierVars, shiftVars, otherVars>>

\* pw.synthesize(new_f0, new_sp, ap, sr) (lines 107 / 233 / 493)
Synthesize ==
    /\ pc = "synth"
    /\ synthF0' = new_f0
    /\ engineCalls' = 5
    /\ pc' = "done"
    /\ outcome' \in {"synthesized", "EngineError"}
    /\ UNCHANGED <<entry, args, frameVars, new_sp, retune, new_f0, tierVars, shiftVars, otherVars>>

\* autotune_praat_soft_to_note lines 272-309: the manipulation object, the
\* sampling times and the pitch-tier value at each of them (0 = undefined)
PraatAnalyse ==
    /\ pc = "praat_analyse"
    /\ \/ /\ engineCalls' = 1
          /\ pc' = "done"
          /\ outcome' = "EngineError"
          /\ UNCHANGED <<f0, voiced_mask>>
       \/ \E c \in F0Contours :
            /\ engineCalls' = 2
            /\ IF Len(c) < 3
               THEN pc' = "done" /\ outcome' = "input" /\ UNCHANGED <<f0, voiced_mask>>
               ELSE /\ f0' = c
                    /\ voiced_mask' = VoicedMask(c)
                    /\ IF ~AnyTrue(VoicedMask(c))
                       THEN pc' = "done" /\ outcome' = "input"
                       ELSE pc' = "praat_contour" /\ outcome' = outcome
    /\ UNCHANGED <<entry, args, new_voiced_mask, analysis_f0, envF0, sp, outVars, shiftVars, otherVars>>

\* lines 311-346
PraatContour ==
    /\ pc = "praat_contour"
    /\ LET x == LogContour(f0, voiced_mask)
           med == NanMedian(x)
           slowIn == [i \in 1..Len(x) |-> IF x[i] # NaN THEN x[i] ELSE med]
       IN  /\ retune' = RetuneContour(x, slowIn, args.amount, args.retune_speed_ms,
                                      args.preserve_vibrato, target_freq, PraatHopMs)
           /\ new_f0' = SoftContour(voiced_mask, retune'.new_x, NaN)
    /\ pc' = "praat_resynth"
    /\ UNCHANGED <<entry, args, outcome, engineCalls, frameVars, new_sp, synthF0,
                   tierVars, shiftVars, otherVars>>

\* lines 348-366: the new tier gets the finite positive points ("Add point"
\* is taken to succeed), "Replace pitch tier" is tried and on an exception
\* tried once more, then "Get resynthesis (overlap-add)" is called outside
\* any try block
PraatResynth ==
    /\ pc = "praat_resynth"
    /\ synthF0' = [i \in 1..Len(new_f0) |->
                     IF new_f0[i] # NaN /\ new_f0[i] > 0 THEN new_f0[i] ELSE 0]
    /\ pc' = "done"
    /\ \E fl \in TierFaults :
         LET rep == ReplaceTier(fl.replace)
         IN  /\ tierFaults' = fl
             /\ replaceAttempts' = rep.attempts
             /\ resynthRequested' = rep.ok
             /\ outcome' = IF rep.ok /\ ~fl.resynth THEN "synthesized" ELSE "EngineError"
             /\ engineCalls' = engineCalls + rep.attempts + (IF rep.ok THEN 1 ELSE 0)
    /\ UNCHANGED <<entry, args, frameVars, new_sp, retune, new_f0, shiftVars, otherVars>>

Stage ==
    \/ ExtractF0
    \/ DeriveMask
    \/ Estimate
    \/ ContourHard
    \/ ContourFormant
    \/ ContourSoft
    \/ Synthesize
    \/ PraatAnalyse
    \/ PraatContour
    \/ PraatResynth

CallFrom(amounts, speeds, vibs, modeArgs, centsSet) ==
    /\ pc = "idle"
    /\ \/ \E e \in VocoderEntries :
            \E a \in ArgsOf(e, amounts, speeds, vibs, modeArgs, centsSet) : CallVocoder(e, a)
       \/ \E a \in ArgsOf("praat", amounts, speeds, vibs, modeArgs, centsSet) : CallPraat(a)

\* every voicing mode and dilation, a few retune settings
Next == CallFrom({50, Unit}, {0, 40}, {0, Unit}, ModeArgs, {0, 1200}) \/ Stage

Spec == Init /\ [][Next]_vars

\* every retune setting, soft retune called as the application calls it
NextRetune ==
    CallFrom(AmountValues, SpeedValues, VibratoValues, {<<"strict", DefaultDilation>>}, {0})
        \/ Stage

SpecRetune == Init /\ [][NextRetune]_vars

\* ----------------------------------- _shift_spectral_envelope on its own
MaxBins == 3
EnvValues == {10, 25, 40}
EnvInputs == SeqsUpTo(EnvValues, MaxBins)
RatioValues ==
    {Ratio(1, 1), Ratio(440, 440), Ratio(2, 1), Ratio(1, 2), Ratio(4, 3),
     Ratio(0, 1), Ratio(-1, 2), Ratio(NaN, 1), Ratio(PosInf, 1), Ratio(NegInf, 1)}

ShiftCall ==
    /\ pc = "idle"
    /\ \E f \in EnvInputs, r \in RatioValues :
         /\ sp_frame' = f
         /\ ratio' = r
         /\ shifted' = _shift_spectral_envelope(f, r)
    /\ UNCHANGED <<callVars, frameVars, outVars, otherVars>>

SpecShift == Init /\ [][ShiftCall]_vars

\* ------------------------------------------------------ apply_cleanliness
SrClean == 800
CleanSrValues == {0, SrClean}
CleanSampleCounts == {0, 159, 160, 400}
CleanlinessValues == {NaN, -10, 0, 50, 100, 150}
BypassValues == {NaN, -1, 0, 200, 250, 1000}
HarmonicCounts == {2, 30}
PitchValues == {100, 150}

\* what librosa.pyin reports of a frame: an f0 between fmin and fmax on a
\* voiced frame, NaN (fill_na) on an unvoiced one
TrackFrames ==
    {[voiced |-> FALSE, f0 |-> NaN]} \cup {[voiced |-> TRUE, f0 |-> v] : v \in PitchValues}

CleanArgs ==
    [sr : CleanSrValues, ndim : NdimValues, nsamples : CleanSampleCounts,
     cleanliness_percent : CleanlinessValues, hf_bypass_hz : BypassValues,
     n_harmonics : HarmonicCounts, preserve_unvoiced : BOOLEAN]

PassThroughNoDuration(a) == a.cleanliness_percent # NaN /\ a.cleanliness_percent <= 0
\* lines 48-53: nothing to do, or less than 0.2 s of audio
PassThrough(a) ==
    \/ a.cleanliness_percent # NaN /\ a.cleanliness_percent <= 0
    \/ 5 * a.nsamples < a.sr

\* lines 40-53
CallCleanliness(a) ==
    /\ entry' = "cleanliness"
    /\ cargs' = a
    /\ IF a.sr <= 0 \/ a.ndim # 1
       THEN pc' = "done" /\ outcome' = "ValueError"
       ELSE IF PassThrough(a)
       THEN pc' = "done" /\ outcome' = "input"
       ELSE pc' = "clean_analyse" /\ outcome' = outcome
    /\ UNCHANGED <<n_frames, clean_f0, voiced_flag, unvoiced_frames, comb, fpErr, mask,
                   stftCalls, pyinCalls, istftCalls, tunerVars, stretchVars, extraVars>>

\* lines 62-89: the transform, the pitch track, and the track cut or padded
\* to the transform's frames
CleanAnalyse ==
    /\ pc = "clean_analyse"
    /\ stftCalls' = stftCalls + 1
    /\ pyinCalls' = pyinCalls + 1
    /\ \E n \in 1..MaxMaskFrames :
         \E trk \in UNION {[1..k -> TrackFrames] : k \in {0, n - 1, n, n + 1}} :
            /\ n_frames' = n
            /\ IF Len(trk) = 0
               THEN /\ pc' = "done"
                    /\ outcome' = "input"
                    /\ UNCHANGED <<clean_f0, voiced_flag>>
               ELSE /\ clean_f0' = AlignTrack([t \in 1..Len(trk) |-> trk[t].f0], n)
                    /\ voiced_flag' = AlignTrack([t \in 1..Len(trk) |-> trk[t].voiced], n)
                    /\ pc' = "clean_mask"
                    /\ outcome' = outcome
    /\ UNCHANGED <<entry, cargs, unvoiced_frames, comb, fpErr, mask, istftCalls, tunerVars, stretchVars, extraVars>>

\* lines 91-130: the comb of every frame, the clip, the temporal smoothing,
\* the second clip and the two overrides
CleanMask ==
    /\ pc = "clean_mask"
    /\ \E err \in {-1, 0, 1} :
         LET freqs == fft_frequencies(cargs.sr)
             bw == BandwidthHz(ClampCleanliness(cargs.cleanliness_percent))
             raw == [t \in 1..n_frames |->
                       FrameColumn(freqs, voiced_flag[t], clean_f0[t],
                                   cargs.preserve_unvoiced, bw)]
             unv == UnvoicedFrames(voiced_flag, clean_f0, cargs.preserve_unvoiced)
             smoothed == ClipMask(gaussian_filter1d(ClipMask(raw), err))
         IN  /\ fpErr' = err
             /\ comb' = raw
             /\ unvoiced_frames' = unv
             /\ mask' = BypassOverride(
                            ReforceUnvoiced(smoothed, unv, cargs.preserve_unvoiced),
                            freqs, BypassStartHz(cargs.hf_bypass_hz, cargs.sr))
    /\ pc' = "clean_resynth"
    /\ UNCHANGED <<entry, outcome, cargs, n_frames, clean_f0, voiced_flag,
                   stftCalls, pyinCalls, istftCalls, tunerVars, stretchVars, extraVars>>

\* lines 132-138: the masked magnitudes back to audio of the input's length
CleanResynth ==
    /\ pc = "clean_resynth"
    /\ istftCalls' = istftCalls + 1
    /\ pc' = "done"
    /\ outcome' = "filtered"
    /\ UNCHANGED <<entry, cargs, n_frames, clean_f0, voiced_flag, unvoiced_frames, comb,
                   fpErr, mask, stftCalls, pyinCalls, tunerVars, stretchVars, extraVars>>

\* ------------------------- the preview of the audio apply_cleanliness ran on
notPreview == <<coreVars, bufVars, uiVars, loadVars, reqVars, cacheVars, ola_k, noteVars>>

\* preview_cleanliness_mask called with the arguments of the finished
\* apply_cleanliness call: librosa.stft and librosa.pyin return what they
\* returned to that call
PreviewCall ==
    /\ pc = "done"
    /\ entry = "cleanliness"
    /\ outcome = "filtered"
    /\ preview_mask = <<>>
    /\ preview_mask' = preview_cleanliness_mask(cargs, n_frames, clean_f0, voiced_flag)
    /\ UNCHANGED notPreview

CleanCall == pc = "idle" /\ \E a \in CleanArgs : CallCleanliness(a)

NextClean ==
    \/ CleanCall
    \/ CleanAnalyse
    \/ CleanMask
    \/ CleanResynth
    \/ PreviewCall

SpecClean == Init /\ [][NextClean]_vars

\* ----------------------------------- time_stretch.py and its two callers
SrLow == 40
StretchSrValues == {0, SrLow, SrClean}
StretchSampleCounts == {0, 1, 3, 40}
MaxIter == 8
FactorValues ==
    {NaN, PosInf, 0, -FactorUnit, FactorUnit \div 2, FactorUnit, FactorUnit + 5,
     (3 * FactorUnit) \div 2, 2 * FactorUnit}
MethodNames == StretcherNames \cup {"bogus"}
Backends == {"audiotsm", "pylibrb", "librosa"}

StretchArgs ==
    [method : MethodNames, sr : StretchSrValues, ndim : NdimValues,
     nsamples : StretchSampleCounts, finite : BOOLEAN, stretch_factor : FactorValues]

\* a stretcher ends with an exception (kind) or a buffer of len samples:
\* a direct caller gets just that, ProcessingThread.run (main_window.py
\* lines 105-128) goes on or emits error(str(e)), render_stretch_variants
\* main (lines 74-92) goes on or records SKIP or FAIL
Finish(kind, len) ==
    /\ outcome' = kind
    /\ outLen' = len
    /\ IF entry = "thread"
       THEN IF kind = "stretched"
            THEN pc' = "thread_post" /\ report' = report
            ELSE pc' = "done" /\ report' = "error"
       ELSE IF entry = "render"
       THEN IF kind = "stretched"
            THEN pc' = "render_post" /\ report' = report
            ELSE /\ pc' = "done"
                 /\ report' = IF kind = "MissingDependencyError" THEN "SKIP" ELSE "FAIL"
       ELSE pc' = "done" /\ report' = report

\* fn(audio, sr, stretch_factor) up to the engine
EnterStretcher(m, a, env) ==
    LET r == StretchEntry(m, a, env)
    IN  IF r # "run" THEN Finish(r, -1)
        ELSE /\ pc' = IF m = "tdpsola" THEN "tdpsola_pitch" ELSE "stretch_engine"
             /\ UNCHANGED <<outcome, outLen, report>>

\* STRETCHERS[name](audio, sr, stretch_factor) called directly
CallStretcher ==
    /\ pc = "idle"
    /\ \E a \in StretchArgs, env \in SUBSET Backends :
         /\ a.method \in StretcherNames
         /\ entry' = "stretch"
         /\ sargs' = a
         /\ installed' = env
         /\ EnterStretcher(a.method, a, env)
    /\ UNCHANGED <<lookups, f0_med, period, n_out, tunerVars, cleanVars, extraVars>>

\* ProcessingThread.run, lines 49-94: the autotune stage, which returns a
\* mono buffer or raises
ThreadStart ==
    /\ pc = "idle"
    /\ \E a \in StretchArgs, env \in SUBSET Backends :
         /\ a.ndim = 1
         /\ sargs' = a
         /\ installed' = env
    /\ entry' = "thread"
    /\ \/ pc' = "thread_stretch" /\ UNCHANGED <<outcome, report>>
       \/ /\ pc' = "done"
          /\ outcome' \in {"ValueError", "RuntimeError", "EngineError"}
          /\ report' = "error"
    /\ UNCHANGED <<lookups, f0_med, period, n_out, outLen, tunerVars, cleanVars, extraVars>>

\* lines 96-103: the stretch stage
ThreadStretch ==
    /\ pc = "thread_stretch"
    /\ IF ~StretchWanted(sargs.stretch_factor)
       THEN pc' = "thread_post" /\ UNCHANGED <<lookups, outcome, outLen, report>>
       ELSE /\ lookups' = lookups + 1
            /\ IF Lookup(sargs.method) = "None"
               THEN /\ pc' = "done"
                    /\ outcome' = "ValueError"
                    /\ report' = "error"
                    /\ UNCHANGED outLen
               ELSE EnterStretcher(Lookup(sargs.method), sargs, installed)
    /\ UNCHANGED <<entry, sargs, installed, f0_med, period, n_out, tunerVars, cleanVars, extraVars>>

\* lines 105-128: the cleaning stages and the normaliser, then
\* finished.emit(result), or error.emit(str(e)) when one of them raises
ThreadPost ==
    /\ pc = "thread_post"
    /\ pc' = "done"
    /\ \/ report' = "finished" /\ UNCHANGED outcome
       \/ report' = "error" /\ outcome' \in {"ValueError", "EngineError"}
    /\ UNCHANGED <<entry, sargs, installed, lookups, f0_med, period, n_out, outLen,
                   tunerVars, cleanVars, extraVars>>

\* render_stretch_variants main, lines 61-75, for one method and one factor
\* (the buffer is autotune_to_note's output, mono and finite)
RenderStart ==
    /\ pc = "idle"
    /\ entry' = "render"
    /\ \E a \in StretchArgs, env \in SUBSET Backends :
         /\ a.ndim = 1 /\ a.finite
         /\ sargs' = a
         /\ installed' = env
         /\ lookups' = lookups + 1
         /\ IF a.method \notin StretcherNames
            THEN /\ pc' = "done"
                 /\ report' = "UnknownMethod"
                 /\ UNCHANGED <<outcome, outLen>>
            ELSE EnterStretcher(a.method, a, env)
    /\ UNCHANGED <<f0_med, period, n_out, tunerVars, cleanVars, extraVars>>

\* lines 76-92: apply_cleanliness and save_audio, or FAIL when they raise
RenderPost ==
    /\ pc = "render_post"
    /\ pc' = "done"
    /\ \/ report' = "WROTE" /\ UNCHANGED outcome
       \/ report' = "FAIL" /\ outcome' \in {"ValueError", "EngineError"}
    /\ UNCHANGED <<entry, sargs, installed, lookups, f0_med, period, n_out, outLen,
                   tunerVars, cleanVars, extraVars>>

\* _audiotsm_stretch lines 53-67 and _pylibrb_stretch lines 118-181: the
\* engine raises, or returns some number of samples (pylibrb: none at all
\* is returned as an empty buffer, otherwise through _as_mono_float)
StretchEngine ==
    /\ pc = "stretch_engine"
    /\ \/ \E kind \in {"RuntimeError", "ValueError"} : Finish(kind, -1)
       \/ \E d \in {-1, 0, 1} :
            LET n == StretchedLength(sargs.nsamples, sargs.stretch_factor) + d
            IN  n >= 0 /\ Finish("stretched", n)
    /\ UNCHANGED <<entry, sargs, installed, lookups, f0_med, period, n_out,
                   tunerVars, cleanVars, extraVars>>

\* tdpsola lines 210-232: the pitch track and its median
TdpsolaPitch ==
    /\ pc = "tdpsola_pitch"
    /\ \/ Finish("RuntimeError", -1) /\ UNCHANGED f0_med
       \/ \E v \in PitchValues :
            /\ f0_med' = v
            /\ pc' = "tdpsola_ola"
            /\ UNCHANGED <<outcome, outLen, report>>
    /\ UNCHANGED <<entry, sargs, installed, lookups, period, n_out, tunerVars, cleanVars, extraVars>>

\* tdpsola lines 234-250: the period, the output length, k = 0
TdpsolaOverlapAdd ==
    /\ pc = "tdpsola_ola"
    /\ period' = PeriodOf(sargs.sr, f0_med)
    /\ n_out' = StretchedLength(sargs.nsamples, sargs.stretch_factor)
    /\ ola_k' = 0
    /\ pc' = "tdpsola_loop"
    /\ UNCHANGED <<entry, outcome, sargs, installed, lookups, f0_med, outLen, report,
                   tunerVars, cleanVars, appVars, noteVars>>

\* lines 251-280: one pass of "while True" (the overlap-add writes samples
\* only), or the break followed by the cut to n_out and _as_mono_float,
\* which raises on an empty buffer
TdpsolaIterate ==
    /\ pc = "tdpsola_loop"
    /\ IF LoopBreaks(ola_k, period, sargs.stretch_factor, sargs.nsamples, n_out)
       THEN /\ LET len == TrimOutput(n_out, 2 * period)
               IN  IF len = 0 THEN Finish("ValueError", -1) ELSE Finish("stretched", len)
            /\ UNCHANGED ola_k
       ELSE /\ ola_k < MaxIter
            /\ ola_k' = ola_k + 1
            /\ UNCHANGED <<pc, outcome, outLen, report>>
    /\ UNCHANGED <<entry, sargs, installed, lookups, f0_med, period, n_out,
                   tunerVars, cleanVars, appVars, noteVars>>

\* the Praat retune called on its own, as ProcessingThread.run calls it
PraatCall ==
    /\ pc = "idle"
    /\ \E a \in ArgsOf("praat", {Unit}, {40}, {Unit}, {<<"strict", DefaultDilation>>}, {0}) :
         CallPraat(a)

NextStretch ==
    \/ CallStretcher
    \/ ThreadStart
    \/ ThreadStretch
    \/ ThreadPost
    \/ RenderStart
    \/ RenderPost
    \/ StretchEngine
    \/ TdpsolaPitch
    \/ TdpsolaOverlapAdd
    \/ TdpsolaIterate
    \/ PraatCall
    \/ PraatAnalyse
    \/ PraatContour
    \/ PraatResynth

SpecStretch == Init /\ [][NextStretch]_vars

\* a thread inside the loop keeps running
SpecStretchFair == SpecStretch /\ WF_vars(TdpsolaIterate)

\* ------------------------------------- the core operations and their input
BufSamples == {NaN, -150, 0, 50}
BufData == UNION {[1..n -> BufSamples] : n \in 0..MaxBufLen}
Dtypes == {"int16", "float32", "float64"}
Paths == {"raise", "early", "full"}
EngineData == {<<>>, <<NaN>>, <<120, -30>>}

BufCall(op, h, r) ==
    /\ bufOp = "none"
    /\ bufOp' = op
    /\ given' = h[1]
    /\ heap' = r.heap
    /\ bufOut' = r.out
    /\ engineReads' = r.reads
    /\ UNCHANGED <<coreVars, uiVars, loadVars, reqVars, cacheVars, previewVars, ola_k, noteVars>>

Caller(d, dt) == <<Buffer(d, dt)>>

BufVocoder ==
    \E d \in BufData, dt \in Dtypes, path \in Paths, e \in EngineData :
    \E op \in {"autotune_to_note", "autotune_with_formant_shift", "autotune_soft_to_note"} :
        BufCall(op, Caller(d, dt), Vocoder(Caller(d, dt), op = "autotune_soft_to_note", path, e))

BufPraat ==
    \E d \in BufData, dt \in Dtypes, path \in Paths, e \in EngineData :
        BufCall("autotune_praat_soft_to_note", Caller(d, dt), autotune_praat(Caller(d, dt), path, e))

BufCleanliness ==
    \E d \in BufData, dt \in Dtypes, path \in Paths, e \in EngineData :
        BufCall("apply_cleanliness", Caller(d, dt), apply_cleanliness_buf(Caller(d, dt), path, e))

BufFilter ==
    \E d \in BufData, dt \in Dtypes, path \in Paths, e \in EngineData :
    \E op \in {"apply_low_cut", "apply_high_shelf"} :
        BufCall(op, Caller(d, dt), ShelfOrCut(Caller(d, dt), path, e))

BufNormalize ==
    \E d \in BufData, dt \in Dtypes :
        BufCall("normalize_audio", Caller(d, dt), normalize_audio(Caller(d, dt)))

BufStretch ==
    \E d \in BufData, dt \in Dtypes, path \in {"raise", "full"}, e \in EngineData :
    \E op \in {"audiotsm", "pylibrb"} :
        BufCall(op, Caller(d, dt), EngineStretch(Caller(d, dt), op = "pylibrb", path, e))

BufTdpsola ==
    \E d \in BufData, dt \in Dtypes, path \in {"raise", "full"}, e \in EngineData :
        BufCall("tdpsola", Caller(d, dt), tdpsola_buf(Caller(d, dt), path, e))

NextBuffers ==
    \/ BufVocoder
    \/ BufPraat
    \/ BufCleanliness
    \/ BufFilter
    \/ BufNormalize
    \/ BufStretch
    \/ BufTdpsola

SpecBuffers == Init /\ [][NextBuffers]_vars

\* ------------------------------------ MainWindow: processing scheduler
\* The window's fields as one record, so that a handler is a function of it
Win ==
    [original_audio |-> original_audio, processed_audio |-> processed_audio,
     debounce_armed |-> debounce_armed, apply_armed |-> apply_armed,
     threads |-> threads, processing_pending |-> processing_pending,
     pending_settings |-> pending_settings, processing_token |-> processing_token,
     current_processing_token |-> current_processing_token,
     latest_completed_token |-> latest_completed_token,
     pending_processed_result |-> pending_processed_result]

SetWin(m) ==
    /\ original_audio' = m.original_audio
    /\ processed_audio' = m.processed_audio
    /\ debounce_armed' = m.debounce_armed
    /\ apply_armed' = m.apply_armed
    /\ threads' = m.threads
    /\ processing_pending' = m.processing_pending
    /\ pending_settings' = m.pending_settings
    /\ processing_token' = m.processing_token
    /\ current_processing_token' = m.current_processing_token
    /\ latest_completed_token' = m.latest_completed_token
    /\ pending_processed_result' = m.pending_processed_result

notUi == <<coreVars, bufVars, loadVars, reqVars, cacheVars, previewVars, ola_k, noteVars>>

\* the finished signal of a load thread reaches _on_load_finished
UiLoadFinished ==
    /\ loads < MaxLoads
    /\ loads' = loads + 1
    /\ SetWin(on_load_finished(Win, loads + 1))
    /\ UNCHANGED <<ui_settings, sigQueue, lastRequested, notUi>>

\* the user moves a control: _on_settings_changed
UiSettingsChanged ==
    /\ ui_settings < MaxSettings
    /\ ui_settings' = ui_settings + 1
    /\ SetWin(schedule_processing(Win))
    /\ UNCHANGED <<sigQueue, lastRequested, loads, notUi>>

\* _processing_debounce_timer.timeout: _on_process.  The event loop runs the
\* slots of queued signals before it fires expired timers.
UiDebounceFires ==
    /\ debounce_armed
    /\ sigQueue = <<>>
    /\ processing_token < MaxRuns
    /\ lastRequested' = ui_settings
    /\ SetWin(start_processing_with_settings([Win EXCEPT !.debounce_armed = FALSE], ui_settings))
    /\ UNCHANGED <<ui_settings, sigQueue, loads, notUi>>

\* ProcessingThread.run reaches self.finished.emit or self.error.emit
WorkerEmit ==
    \E i \in 1..Len(threads), kind \in {"finished", "error"} :
        /\ threads[i].state = "running"
        /\ threads' = [threads EXCEPT ![i].state = "emitted"]
        /\ sigQueue' = Append(sigQueue,
               [kind |-> kind, token |-> threads[i].token,
                result |-> [audio |-> threads[i].audio, settings |-> threads[i].settings,
                            token |-> threads[i].token]])
        /\ UNCHANGED <<original_audio, processed_audio, debounce_armed, apply_armed,
                       processing_pending, pending_settings, processing_token,
                       current_processing_token, latest_completed_token,
                       pending_processed_result, ui_settings, lastRequested, loads, notUi>>

\* ProcessingThread.run returns and the thread stops
WorkerExit ==
    \E i \in 1..Len(threads) :
        /\ threads[i].state = "emitted"
        /\ threads' = [threads EXCEPT ![i].state = "exited"]
        /\ UNCHANGED <<original_audio, processed_audio, debounce_armed, apply_armed,
                       processing_pending, pending_settings, processing_token,
                       current_processing_token, latest_completed_token,
                       pending_processed_result, ui_settings, sigQueue, lastRequested,
                       loads, notUi>>

\* the main thread's event loop runs the slot of a queued finished signal
UiDeliverFinished ==
    /\ sigQueue # <<>>
    /\ Head(sigQueue).kind = "finished"
    /\ processing_token < MaxRuns \/ ~processing_pending
    /\ sigQueue' = Tail(sigQueue)
    /\ SetWin(on_processing_finished(Win, Head(sigQueue).result, Head(sigQueue).token))
    /\ UNCHANGED <<ui_settings, lastRequested, loads, notUi>>

UiDeliverError ==
    /\ sigQueue # <<>>
    /\ Head(sigQueue).kind = "error"
    /\ sigQueue' = Tail(sigQueue)
    /\ SetWin(on_processing_error(Win, Head(sigQueue).token))
    /\ UNCHANGED <<ui_settings, lastRequested, loads, notUi>>

\* _apply_processed_timer.timeout
UiApplyFires ==
    /\ apply_armed
    /\ sigQueue = <<>>
    /\ SetWin(apply_latest_processed_result([Win EXCEPT !.apply_armed = FALSE]))
    /\ UNCHANGED <<ui_settings, sigQueue, lastRequested, loads, notUi>>

NextUi ==
    \/ UiLoadFinished
    \/ UiSettingsChanged
    \/ UiDebounceFires
    \/ WorkerEmit
    \/ WorkerExit
    \/ UiDeliverFinished
    \/ UiDeliverError
    \/ UiApplyFires

SpecUi == Init /\ [][NextUi]_vars

\* ------------------------------------------- MainWindow: loading a file
LoadFiles == {1, 2}
notLoad == <<coreVars, bufVars, reqVars, cacheVars, previewVars, ola_k, noteVars, ui_settings, sigQueue, lastRequested, loads>>

\* _load_audio_file(file_path, accurate_pitch)
LoadRequest ==
    \E file \in LoadFiles, accurate_pitch \in BOOLEAN :
        /\ loadRequests < MaxLoadRequests
        /\ loadRequests' = loadRequests + 1
        /\ IF load_thread.state \in {"reading", "detecting", "emitted"}
           THEN ignoredLoads' = ignoredLoads + 1 /\ UNCHANGED load_thread
           ELSE load_thread' = LoadAudioThread(file, ~accurate_pitch) /\ UNCHANGED ignoredLoads
        /\ UNCHANGED <<loadQueue, errorBoxes, winVars, notLoad>>

\* LoadAudioThread.run up to the first interruption test: load_audio
\* returns or raises; nothing in the program requests an interruption of
\* a load thread
LoadRead ==
    /\ load_thread.state = "reading"
    /\ \E ok \in BOOLEAN :
          IF ok
          THEN /\ load_thread' = [load_thread EXCEPT !.state = "detecting", !.read = "ok"]
               /\ UNCHANGED loadQueue
          ELSE /\ load_thread' = [load_thread EXCEPT !.state = "emitted", !.read = "raised",
                                                      !.emitted = "error"]
               /\ loadQueue' = Append(loadQueue, [kind |-> "error", audio |-> 0])
    /\ UNCHANGED <<loadRequests, ignoredLoads, errorBoxes, winVars, notLoad>>

\* the call of get_predominant_pitch and what run() emits after it
LoadDetect ==
    /\ load_thread.state = "detecting"
    /\ LET kind == IF RaisesTypeError(PitchParams, PitchKeywords) THEN "error" ELSE "finished"
       IN  /\ load_thread' = [load_thread EXCEPT !.state = "emitted", !.emitted = kind]
           /\ loadQueue' = Append(loadQueue,
                  [kind |-> kind, audio |-> IF kind = "finished" THEN load_thread.file ELSE 0])
    /\ UNCHANGED <<loadRequests, ignoredLoads, errorBoxes, winVars, notLoad>>

LoadExit ==
    /\ load_thread.state = "emitted"
    /\ load_thread' = [load_thread EXCEPT !.state = "exited"]
    /\ UNCHANGED <<loadQueue, loadRequests, ignoredLoads, errorBoxes, winVars, notLoad>>

\* the main thread runs _on_load_finished or _on_load_error
LoadDeliver ==
    /\ loadQueue # <<>>
    /\ loadQueue' = Tail(loadQueue)
    /\ IF Head(loadQueue).kind = "finished"
       THEN SetWin(on_load_finished(Win, Head(loadQueue).audio)) /\ UNCHANGED errorBoxes
       ELSE errorBoxes' = errorBoxes + 1 /\ UNCHANGED winVars
    /\ UNCHANGED <<load_thread, loadRequests, ignoredLoads, notLoad>>

NextLoad ==
    \/ LoadRequest
    \/ LoadRead
    \/ LoadDetect
    \/ LoadExit
    \/ LoadDeliver

SpecLoad == Init /\ [][NextLoad]_vars

\* --------------------------------- two correction requests with one key
RequestBuffers == {1, 2}
RequestModes == {"strict", "dilate", "bogus"}
RequestKeys ==
    {AnalysisKey(b, SrClean, m, DefaultDilation) : b \in RequestBuffers, m \in RequestModes}
notReq == <<coreVars, bufVars, uiVars, loadVars, cacheVars, previewVars, ola_k, noteVars>>

\* autotune_to_note, autotune_with_formant_shift or autotune_soft_to_note is
\* called: each call runs the analysis of its buffer
CorrectionRequest ==
    \E e \in VocoderEntries, key \in RequestKeys :
        /\ Len(requestLog) < MaxRequests
        /\ requestLog' = Append(requestLog, [entry |-> e, key |-> key])
        /\ engineLog' = engineLog \o AnalysisCalls(key)
        /\ UNCHANGED notReq

NextRequests == CorrectionRequest

SpecRequests == Init /\ [][NextRequests]_vars

\* ------------------------------------------ AnalysisCache.get_or_compute
CacheBuffers == {1, 2, 3}
CacheModes == {"strict", "force", "bogus"}
CacheKeys ==
    {AnalysisKey(b, SrClean, m, DefaultDilation) : b \in CacheBuffers, m \in CacheModes}
notCache == <<coreVars, bufVars, uiVars, loadVars, reqVars, previewVars, ola_k, noteVars>>

GetOrCompute ==
    \E key \in CacheKeys, analysisFails \in BOOLEAN :
        LET r == get_or_compute(cache, key, analysisFails) IN
        /\ cacheCalls < MaxCacheCalls
        /\ cacheCalls' = cacheCalls + 1
        /\ cacheBefore' = cache
        /\ cache' = r.cache
        /\ cacheOutcome' = r.outcome
        /\ cacheEvicted' = r.evicted
        /\ useLog' = IF r.outcome \in {"hit", "computed"} THEN Append(useLog, key) ELSE useLog
        /\ UNCHANGED notCache

NextCache == GetOrCompute

SpecCache == Init /\ [][NextCache]_vars

\* ------------------------------------------ note names and MIDI numbers
MidiNumbers == (-MaxMidi)..MaxMidi
SharpNames ==
    {NOTE_NAMES_SHARP[i] \o FormatInt(o) : i \in 1..12, o \in (-MaxOctave)..MaxOctave}
\* other spellings and strings that are no note name
OtherTexts ==
    { <<"d", "b", "3">>, <<" ", "e", "#", " ", "4", " ">>, <<"B", "b", "-", "1">>,
      <<"H", "2">>, <<"C">>, <<"C", "#", "x">>, <<"C", "-">>, <<>>, <<"G", "4", "4", "!">> }
notNotes == <<coreVars, appVars, ola_k>>

\* note_name_to_midi(midi_to_note_name(m))
NumberRoundTrip ==
    \E m \in MidiNumbers :
        /\ nt_dir = "none"
        /\ nt_dir' = "number"
        /\ nt_in' = m
        /\ nt_mid' = midi_to_note_name(m)
        /\ nt_out' = note_name_to_midi(midi_to_note_name(m))
        /\ UNCHANGED notNotes

\* midi_to_note_name(note_name_to_midi(name)); a name that raises gives no name
NameRoundTrip ==
    \E name \in SharpNames \cup OtherTexts :
        LET r == note_name_to_midi(name) IN
        /\ nt_dir = "none"
        /\ nt_dir' = "name"
        /\ nt_in' = name
        /\ nt_mid' = r
        /\ nt_out' = IF r.ok THEN midi_to_note_name(r.midi) ELSE <<>>
        /\ UNCHANGED notNotes

NextNotes ==
    \/ NumberRoundTrip
    \/ NameRoundTrip

SpecNotes == Init /\ [][NextNotes]_vars

\* ------------------------------------------------------------------ claims
Corrected(i) == new_voiced_mask[i]
Synthesized == entry \in VocoderEntries /\ engineCalls = 5
ContourBuilt == retune # NoRetune
\* shorter than 0.1 s: fewer than sr / 10 samples
ShortAudio == 10 * args.nsamples < args.sr
ValidCall == args.sr > 0 /\ args.ndim = 1 /\ ~ShortAudio
Frames == 1..Len(f0)

C2_NoVoicedIsNoop ==
    (/\ entry \in {"soft", "praat"}
     /\ pc = "done"
     /\ engineCalls >= 2
     /\ outcome # "EngineError"
     /\ args.voicing_mode \in Modes
     /\ \A i \in Frames : f0[i] = 0)
        => outcome = "input" /\ ~Synthesized

\* C3 (as stated): with amount = 1, retune_speed_ms <= 0, preserve_vibrato = 0
\* and every other argument at its default, the contour soft retune hands to
\* resynthesis is frame by frame the contour hard mode hands over with its own
\* defaults (voicing_mode "force").
C3_SoftEqualsHardDefaults ==
    (/\ entry = "soft"
     /\ Synthesized
     /\ args.amount = Unit /\ args.retune_speed_ms <= 0 /\ args.preserve_vibrato = 0
     /\ args.voicing_mode = "strict" /\ args.dilation_frames = DefaultDilation
     /\ args.formant_shift_cents = 0)
        => synthF0 = HardContour(DeriveMaskOf("force", VoicedMask(f0), DefaultDilation),
                                 target_freq)

\* C3 (amended): with amount = 1, retune_speed_ms <= 0, preserve_vibrato = 0,
\* and the same voicing_mode and dilation_frames given to both, soft retune's
\* contour is 0 on exactly the frames where hard mode's contour is 0, and on
\* every other frame it is 2^log2(target): the target up to rounding.
C3_SoftMatchesHardSameMode ==
    (/\ entry = "soft"
     /\ Synthesized
     /\ args.amount = Unit /\ args.retune_speed_ms <= 0 /\ args.preserve_vibrato = 0)
        => LET hard == HardContour(DeriveMaskOf(args.voicing_mode, VoicedMask(f0),
                                                args.dilation_frames), target_freq)
           IN  /\ Len(synthF0) = Len(hard)
               /\ \A i \in Frames :
                    /\ (hard[i] = 0) <=> (synthF0[i] = 0)
                    /\ hard[i] # 0 =>
                         /\ synthF0[i] = Exp2Q(Log2Q(target_freq))
                         /\ synthF0[i] - hard[i] \in -1..1

C3_Witness ==
    /\ entry = "soft"
    /\ Synthesized
    /\ args.amount = Unit /\ args.retune_speed_ms <= 0 /\ args.preserve_vibrato = 0
    /\ args.voicing_mode = "dilate"
    /\ \E i, j, k \in Frames :
         /\ f0[i] > 0 /\ f0[i] # target_freq /\ f0[j] > 0 /\ f0[j] # f0[i]
         /\ synthF0[i] = Exp2Q(Log2Q(target_freq))
         /\ synthF0[k] = 0

\* C4: with voicing_mode = strict, in every vocoder entry point, the
\* correction mask is (raw_f0 > 0) and the f0 passed to spectral-envelope and
\* aperiodicity estimation is the raw f0, unchanged.
C4_StrictUsesRawF0 ==
    (/\ entry \in VocoderEntries
     /\ args.voicing_mode = "strict"
     /\ engineCalls >= 3)
        => /\ new_voiced_mask = VoicedMask(f0)
           /\ envF0 = f0

\* C5: force gives an all-true mask; dilate with d gives true at j exactly
\* when some raw-voiced i has |i - j| <= d, a superset of the raw mask that
\* equals it when d <= 0 or no frame is voiced; the mask has the length of
\* the input.
C5_MaskDerivation ==
    (entry \in VocoderEntries /\ pc \notin {"idle", "extract", "mask"}
        /\ args.voicing_mode \in Modes /\ engineCalls >= 2)
        => /\ Len(new_voiced_mask) = Len(f0)
           /\ args.voicing_mode = "force" => \A j \in Frames : new_voiced_mask[j]
           /\ args.voicing_mode = "dilate" =>
                LET d == args.dilation_frames
                IN  /\ \A j \in Frames :
                         new_voiced_mask[j] <=>
                            \E i \in Frames :
                               f0[i] > 0 /\ i - j <= Max(d, 0) /\ j - i <= Max(d, 0)
                    /\ \A j \in Frames : f0[j] > 0 => new_voiced_mask[j]
                    /\ (d <= 0 \/ \A i \in Frames : f0[i] = 0)
                          => new_voiced_mask = VoicedMask(f0)

C5_Witness ==
    /\ entry \in VocoderEntries
    /\ pc = "estimate"
    /\ args.voicing_mode = "dilate"
    /\ args.dilation_frames = 1
    /\ Len(f0) = 3
    /\ f0[1] > 0 /\ f0[2] = 0 /\ f0[3] = 0
    /\ new_voiced_mask = <<TRUE, TRUE, FALSE>>

\* C6: a call with an unrecognized voicing_mode and otherwise valid arguments
\* ends in a ValueError, whatever the external engine does on that call.
C6_BadModeIsValueError ==
    (/\ entry \in VocoderEntries
     /\ pc = "done"
     /\ ValidCall
     /\ args.voicing_mode \notin Modes)
        => outcome = "ValueError"

\* C7: in the vocoder entry points a sample rate <= 0, a non-1-D array or
\* audio shorter than 0.1 s ends in a ValueError raised before any call to
\* the external engine.
C7_ValidationFirst ==
    (entry \in VocoderEntries /\ ~ValidCall)
        => pc = "done" /\ outcome = "ValueError" /\ engineCalls = 0

C7_Witness ==
    /\ entry \in VocoderEntries
    /\ args.sr > 0 /\ args.ndim = 1 /\ ShortAudio
    /\ pc = "done" /\ outcome = "ValueError" /\ engineCalls = 0

\* C8 (as stated): with preserve_vibrato = 0 the recombined contour new_x
\* equals the smoothed trajectory y at every frame, in both paths.
C8_NoVibratoEqualsYEverywhere ==
    (ContourBuilt /\ retune.vib_f = 0)
        => \A i \in Frames : retune.new_x[i] = retune.y[i]

\* C8 (amended): at every frame where the log2 contour x is defined (every
\* frame in the vocoder path, the voiced frames in the PSOLA path)
\* new_x = y + v * x_fast with v the clamped preserve_vibrato, so new_x = y
\* when v = 0 and new_x - y = x_fast when v = 1; at the unvoiced frames of
\* the PSOLA path x_fast and new_x are undefined (NaN).
C8_Recombination ==
    ContourBuilt =>
        /\ entry = "soft" => \A i \in Frames : retune.x[i] # NaN
        /\ \A i \in Frames :
             IF retune.x[i] # NaN
             THEN /\ retune.new_x[i] # NaN
                  /\ retune.new_x[i]
                        = retune.y[i] + (retune.vib_f * retune.x_fast[i]) \div Unit
                  /\ retune.vib_f = 0 => retune.new_x[i] = retune.y[i]
                  /\ retune.vib_f = Unit =>
                        retune.new_x[i] - retune.y[i] = retune.x_fast[i]
             ELSE retune.new_x[i] = NaN /\ retune.x_fast[i] = NaN

C8_Witness ==
    /\ entry = "praat"
    /\ ContourBuilt
    /\ retune.vib_f = 0
    /\ \E i, j \in Frames :
         /\ retune.x[i] # NaN /\ retune.x_fast[i] # 0 /\ retune.new_x[i] = retune.y[i]
         /\ retune.x[j] = NaN /\ retune.y[j] # NaN

\* C9: whatever amount, preserve_vibrato and retune_speed_ms are, the
\* effective amount and vibrato lie in [0, 1] (1.0 for a non-finite input,
\* the clamped value otherwise), alpha lies in [0, 0.9999] and is 0 when
\* retune_speed_ms is <= 0 or non-finite, and no exception comes from them.
C9_ParameterFallbacks ==
    /\ ContourBuilt =>
         /\ retune.amount_f \in 0..Unit
         /\ retune.vib_f \in 0..Unit
         /\ retune.alpha \in 0..AlphaCap
         /\ retune.amount_f =
              (IF IsFinite(args.amount) THEN Max(0, Min(Unit, args.amount)) ELSE Unit)
         /\ retune.vib_f =
              (IF IsFinite(args.preserve_vibrato)
               THEN Max(0, Min(Unit, args.preserve_vibrato)) ELSE Unit)
         /\ (~IsFinite(args.retune_speed_ms) \/ args.retune_speed_ms <= 0)
              => retune.alpha = 0
    /\ (entry \in {"soft", "praat"} /\ outcome = "ValueError") =>
         \/ args.sr <= 0
         \/ args.ndim # 1
         \/ entry = "soft" /\ ShortAudio
         \/ entry = "soft" /\ args.voicing_mode \notin Modes
    /\ (entry = "praat" /\ outcome = "RuntimeError") => ~args.parselmouth

C9_Witness ==
    /\ entry = "soft"
    /\ outcome = "synthesized"
    /\ ~IsFinite(args.amount) /\ retune.amount_f = Unit
    /\ args.preserve_vibrato > Unit /\ retune.vib_f = Unit
    /\ args.retune_speed_ms = HugeSpeed /\ retune.alpha = AlphaCap

\* C10: _shift_spectral_envelope returns its input frame, element for
\* element and of the same length, when ratio = 1 and when ratio is <= 0 or
\* non-finite.
C10_ShiftIdentity ==
    (\/ ratio.num = ratio.den
     \/ ~IsFinite(ratio.num)
     \/ ratio.num <= 0)
        => shifted = sp_frame

C10_Witness ==
    /\ Len(sp_frame) = 3
    /\ sp_frame[1] # sp_frame[2] /\ sp_frame[2] # sp_frame[3]
    /\ ratio = Ratio(440, 440)
    /\ shifted = sp_frame

\* the Praat entry point ran its resynthesis tail (lines 348-362)
TierDone == pc = "done" /\ entry = "praat" /\ replaceAttempts > 0

\* C11 as stated: when "Replace pitch tier" or the overlap-add resynthesis
\* raises, the replace is retried exactly once; a failure reaches the caller
\* only if the retry failed too; the replace is attempted at most twice and
\* resynthesis is requested only after a replace attempt succeeded
C11_RetryOnAnyFailure ==
    TierDone =>
        /\ (tierFaults.replace[1] \/ (resynthRequested /\ tierFaults.resynth))
               => replaceAttempts = 2
        /\ outcome = "EngineError" => replaceAttempts = 2 /\ tierFaults.replace[2]
        /\ replaceAttempts <= 2
        /\ resynthRequested => \E i \in 1..replaceAttempts : ~tierFaults.replace[i]

\* C11 amended: the replace is retried exactly once when the replace itself
\* raises, and only then; its failure reaches the caller only if the retry
\* raises too; an exception of the resynthesis reaches the caller with no
\* retry; at most two replace attempts; resynthesis is requested exactly when
\* the last replace attempt succeeded
C11_BoundedReplaceRetry ==
    TierDone =>
        /\ replaceAttempts = (IF tierFaults.replace[1] THEN 2 ELSE 1)
        /\ replaceAttempts <= 2
        /\ resynthRequested <=> ~tierFaults.replace[replaceAttempts]
        /\ ~resynthRequested => outcome = "EngineError" /\ replaceAttempts = 2
        /\ resynthRequested =>
               outcome = (IF tierFaults.resynth THEN "EngineError" ELSE "synthesized")
        /\ engineCalls = 2 + replaceAttempts + (IF resynthRequested THEN 1 ELSE 0)

\* the first replace raised, the retry succeeded and the audio was resynthesised
C11_Witness ==
    /\ TierDone
    /\ tierFaults.replace[1] /\ ~tierFaults.replace[2]
    /\ replaceAttempts = 2 /\ resynthRequested /\ outcome = "synthesized"

\* the mask of apply_cleanliness has been built
MaskBuilt == entry = "cleanliness" /\ pc \in {"clean_resynth", "done"} /\ mask # <<>>
MaskFrames == 1..Len(mask)
Bins == 1..FftBins

\* C12: every element of the mask multiplied into the magnitudes lies in
\* [0, 1], after the smoothing, the bypass and the unvoiced override
C12_MaskRange ==
    MaskBuilt => \A t \in MaskFrames : \A i \in Bins : mask[t][i] \in 0..MaskUnit

\* a mask with an attenuated element whose smoothing overshot
C12_Witness ==
    /\ MaskBuilt /\ fpErr = 1
    /\ \E t \in MaskFrames : \E i \in Bins : mask[t][i] < MaskUnit
    /\ \E t \in MaskFrames : \E i \in Bins : mask[t][i] = MaskUnit /\ ~unvoiced_frames[t]

\* C13: with preserve_unvoiced, every bin of every frame the tracker marks
\* unvoiced is 1.0 in the final mask, whatever the neighbouring frames hold
C13_UnvoicedProtected ==
    MaskBuilt /\ cargs.preserve_unvoiced =>
        \A t \in MaskFrames : ~voiced_flag[t] => \A i \in Bins : mask[t][i] = MaskUnit

\* an unvoiced frame next to a voiced frame that attenuates a bin below the
\* bypass, which the smoothing alone would have leaked into the unvoiced one
C13_Witness ==
    /\ MaskBuilt /\ cargs.preserve_unvoiced
    /\ \E t, u \in MaskFrames : \E i \in Bins :
         /\ ~voiced_flag[t] /\ voiced_flag[u]
         /\ comb[u][i] < MaskUnit /\ mask[u][i] < MaskUnit
         /\ ClipMask(gaussian_filter1d(ClipMask(comb), fpErr))[t][i] < MaskUnit
         /\ mask[t][i] = MaskUnit

\* a frame whose f0 estimate is non-finite or non-positive
NoUsableF0(t) == clean_f0[t] = NaN \/ clean_f0[t] <= 0

\* C14 as stated: every frame without a usable f0 has an all-1.0 column in
\* the mask applied, with preserve_unvoiced true or false
C14_NoF0PassesEverything ==
    MaskBuilt =>
        \A t \in MaskFrames : NoUsableF0(t) => \A i \in Bins : mask[t][i] = MaskUnit

\* C14 amended: such a frame's column is all 1.0 when the per-frame loop
\* ends, with preserve_unvoiced true or false; in the mask applied it is all
\* 1.0 when preserve_unvoiced is true, and at the bypassed bins otherwise
C14_NoF0PassesBeforeSmoothing ==
    MaskBuilt =>
        \A t \in MaskFrames : NoUsableF0(t) =>
            /\ unvoiced_frames[t]
            /\ \A i \in Bins : comb[t][i] = MaskUnit
            /\ cargs.preserve_unvoiced => \A i \in Bins : mask[t][i] = MaskUnit

\* preserve_unvoiced off, exact smoothing: a frame without f0 passed
\* everything after the loop and lost part of a bin to a voiced neighbour
C14_Witness ==
    /\ MaskBuilt /\ ~cargs.preserve_unvoiced /\ fpErr = 0
    /\ \E t, u \in MaskFrames : \E i \in Bins :
         /\ NoUsableF0(t) /\ comb[t][i] = MaskUnit
         /\ ~NoUsableF0(u) /\ comb[u][i] < MaskUnit
         /\ mask[t][i] < MaskUnit

Nyquist == cargs.sr \div 2

\* C15 as stated: for every hf_bypass_hz the caller passes, capped at
\* Nyquist, every bin at or above it is 1.0 in every frame
C15_BypassAnyValue ==
    MaskBuilt /\ IsFinite(cargs.hf_bypass_hz) =>
        \A t \in MaskFrames : \A i \in Bins :
            fft_frequencies(cargs.sr)[i] >= Min(cargs.hf_bypass_hz, Nyquist)
                => mask[t][i] = MaskUnit

\* C15 amended: for a finite positive hf_bypass_hz every bin at or above
\* min(hf_bypass_hz, Nyquist) is 1.0 in every frame; for any other value
\* (0, the default, a negative or a non-finite one) the bypass starts at
\* Nyquist and the bins at or above Nyquist are 1.0 in every frame
C15_BypassEffective ==
    MaskBuilt =>
        LET hf == cargs.hf_bypass_hz
            start == IF hf # NaN /\ hf # PosInf /\ hf # NegInf /\ hf > 0
                     THEN Min(hf, Nyquist) ELSE Nyquist
        IN  \A t \in MaskFrames : \A i \in Bins :
                fft_frequencies(cargs.sr)[i] >= start => mask[t][i] = MaskUnit

\* a voiced frame whose comb attenuates the bin that sits exactly on the
\* bypass frequency, and the applied mask passes it
C15_Witness ==
    /\ MaskBuilt /\ cargs.hf_bypass_hz = 200
    /\ \E t \in MaskFrames : \E i \in Bins :
         /\ voiced_flag[t]
         /\ fft_frequencies(cargs.sr)[i] = 200
         /\ comb[t][i] < MaskUnit
         /\ mask[t][i] = MaskUnit

\* C16: for a mono buffer and a positive sample rate, cleanliness <= 0 or
\* less than 0.2 s of audio returns the input and calls neither the
\* spectral transform nor the pitch tracker
C16_PassThrough ==
    (entry = "cleanliness" /\ cargs.sr > 0 /\ cargs.ndim = 1
      /\ (\/ cargs.cleanliness_percent # NaN /\ cargs.cleanliness_percent <= 0
          \/ 5 * cargs.nsamples < cargs.sr))
        => /\ pc = "done" /\ outcome = "input"
           /\ stftCalls = 0 /\ pyinCalls = 0 /\ istftCalls = 0
           /\ mask = <<>>

\* a buffer one sample short of 0.2 s with a positive cleanliness
C16_Witness ==
    /\ entry = "cleanliness" /\ pc = "done" /\ outcome = "input"
    /\ cargs.sr = SrClean /\ cargs.ndim = 1
    /\ cargs.cleanliness_percent = 50 /\ 5 * cargs.nsamples = cargs.sr - 5
    /\ stftCalls = 0 /\ pyinCalls = 0

\* C17: in a voiced frame a bin lying exactly on k * f0 gets 1.0 from the
\* comb only for 1 <= k <= n_harmonics; a bin whose nearest multiple of f0
\* is k = 0 or k > n_harmonics is not passed as a harmonic
C17_HarmonicSelection ==
    MaskBuilt =>
        \A t \in MaskFrames : ~unvoiced_frames[t] =>
            \A i \in Bins :
                LET freq == fft_frequencies(cargs.sr)[i]
                    k == Rint(freq, clean_f0[t])
                IN  (k < 1 \/ k > cargs.n_harmonics) => comb[t][i] < MaskUnit

\* the request names a stretch method that is not a key of STRETCHERS
UnknownMethod == sargs.method \notin StretcherNames

\* C18 as stated: a processing request with an unknown stretch-method name
\* ends in an InvalidArgument error and gives no output audio, for every
\* stretch factor
C18_UnknownMethodAnyFactor ==
    /\ (entry = "thread" /\ UnknownMethod) =>
          /\ pc # "thread_post" /\ report # "finished" /\ outLen = -1
          /\ (pc = "done" /\ lookups > 0) => report = "error" /\ outcome = "ValueError"
    /\ (entry = "render" /\ UnknownMethod) =>
          pc = "done" /\ report = "UnknownMethod" /\ outLen = -1

\* C18 amended: in ProcessingThread.run the name is looked up only when
\* abs(stretch_factor - 1.0) > 1e-6; then an unknown name is a ValueError
\* reported through the error signal and nothing is emitted as finished;
\* with a factor within 1e-6 of 1.0 (or nan) no lookup is made and the
\* request goes on without stretching; render_stretch_variants records an
\* unknown name as a failure and writes nothing for it, whatever the factor
C18_UnknownMethodWhenStretching ==
    /\ (entry = "thread" /\ UnknownMethod /\ StretchWanted(sargs.stretch_factor)) =>
          /\ pc # "thread_post" /\ report # "finished" /\ outLen = -1
          /\ (pc = "done" /\ lookups > 0) => report = "error" /\ outcome = "ValueError"
    /\ (entry = "thread" /\ UnknownMethod /\ ~StretchWanted(sargs.stretch_factor)) =>
          lookups = 0 /\ outLen = -1
    /\ (entry = "render" /\ UnknownMethod) =>
          pc = "done" /\ report = "UnknownMethod" /\ outLen = -1

\* a request for a stretch by 2 with an unknown method, refused
C18_Witness ==
    /\ entry = "thread" /\ pc = "done" /\ UnknownMethod
    /\ sargs.stretch_factor = 2 * FactorUnit
    /\ lookups = 1 /\ report = "error" /\ outcome = "ValueError"

\* C19: whenever an operation needs an optional back end that cannot be
\* imported, the error that reaches the caller of the core is a
\* MissingDependencyError
C19_MissingBackendIsTyped ==
    /\ (/\ entry = "stretch" /\ pc = "done"
        /\ sargs.ndim = 1 /\ sargs.nsamples > 0 /\ sargs.finite /\ sargs.sr > 0
        /\ IsFinite(sargs.stretch_factor) /\ sargs.stretch_factor > 0
        /\ BackendOf(sargs.method) \notin installed)
          => outcome = "MissingDependencyError"
    /\ (entry = "praat" /\ ~args.parselmouth) => outcome = "MissingDependencyError"

\* C20: when tdpsola returns, the buffer has round(N * stretch_factor)
\* samples: 2N for factor 2, N for factor 1, never fewer than N for a
\* factor above 1 and never more than N for a factor below 1
C20_TdpsolaLength ==
    (sargs # <<>> /\ sargs.method = "tdpsola" /\ outcome = "stretched") =>
        LET N == sargs.nsamples
            f == sargs.stretch_factor
        IN  /\ outLen >= 1
            /\ 2 * Abs(outLen * FactorUnit - N * f) <= FactorUnit
            /\ f = 2 * FactorUnit => outLen = 2 * N
            /\ f = FactorUnit => outLen = N
            /\ f > FactorUnit => outLen >= N
            /\ f < FactorUnit => outLen <= N

\* 3 samples stretched by 1.5: round(4.5) is 4
C20_Witness ==
    /\ entry = "stretch" /\ pc = "done" /\ outcome = "stretched"
    /\ sargs.method = "tdpsola"
    /\ sargs.nsamples = 3 /\ sargs.stretch_factor = (3 * FactorUnit) \div 2
    /\ outLen = 4

\* C21: no core operation changes the samples or the dtype of the buffer its
\* caller passed in, whether the call returns a buffer or raises.
C21_InputUntouched == bufOp # "none" => heap[1] = given

\* a stretcher returned a new buffer for float32 input that needed clipping
C21_Witness ==
    /\ bufOp \in {"audiotsm", "pylibrb", "tdpsola"}
    /\ bufOut > 1
    /\ given.dtype = "float32"
    /\ \E i \in 1..Len(given.data) : given.data[i] < -Unit
    /\ heap[1] = given
    /\ heap[bufOut].data # given.data

\* a call that raised after the input had been looked at
C21_WitnessRaised ==
    /\ bufOp # "none"
    /\ bufOut = 0
    /\ Len(given.data) > 0
    /\ heap[1] = given

InFlight == {i \in 1..Len(threads) : isRunning(threads[i])}
\* nothing is left that would make the program act without new user input
Quiescent ==
    /\ InFlight = {}
    /\ sigQueue = <<>>
    /\ ~debounce_armed
    /\ ~apply_armed

C28_SuccessfulLoadFinishes ==
    (load_thread.read = "ok" /\ load_thread.state \in {"emitted", "exited"})
        => load_thread.emitted = "finished"

\* the part of C28 that the code keeps: requests made while a load thread
\* runs start no second thread
C28_SecondLoadIgnored ==
    [][(load_thread.state \in {"reading", "detecting", "emitted"}
        /\ loadRequests' = loadRequests + 1)
       => (load_thread' = load_thread /\ ignoredLoads' = ignoredLoads + 1)]_vars

\* C23: however many requests carry one key, the analysis of that key is run
\* once (one dio call per requested key).
C23_AnalysisOnce ==
    \A r \in 1..Len(requestLog) :
        Cardinality({i \in 1..Len(engineLog) :
                        engineLog[i].engine = "dio" /\ engineLog[i].key = requestLog[r].key}) = 1

\* position of the latest use of key k in a log of uses, 0 if never used
LastUse(log, k) ==
    IF \E i \in 1..Len(log) : log[i] = k
    THEN CHOOSE i \in 1..Len(log) : log[i] = k /\ \A j \in (i + 1)..Len(log) : log[j] # k
    ELSE 0
\* the uses made before the latest successful call
EarlierUses == SubSeq(useLog, 1, Len(useLog) - 1)

\* C24: the cache holds at most 4 entries, one per key; a 5th distinct key
\* evicts exactly the entry whose latest use (insertion or hit) is oldest.
C24_StrictLru ==
    /\ Len(cache) <= 4
    /\ \A i, j \in 1..Len(cache) : cache[i].key = cache[j].key => i = j
    /\ (cacheOutcome = "computed" /\ Len(cacheBefore) = 4)
          => /\ cacheEvicted \in CacheKeysOf(cacheBefore)
             /\ \A k \in CacheKeysOf(cacheBefore) \ {cacheEvicted} :
                    LastUse(EarlierUses, cacheEvicted) < LastUse(EarlierUses, k)
             /\ CacheKeysOf(cache) =
                    (CacheKeysOf(cacheBefore) \ {cacheEvicted}) \cup {useLog[Len(useLog)]}
    /\ (cacheOutcome # "computed" \/ Len(cacheBefore) < 4) => cacheEvicted = NoKey

\* a 5th key was inserted after a hit had promoted the oldest entry, which
\* is therefore still cached
C24_Witness ==
    /\ cacheOutcome = "computed"
    /\ cacheEvicted # NoKey
    /\ Len(useLog) > 1
    /\ useLog[1] \in CacheKeysOf(cache)
    /\ cacheEvicted # useLog[1]

\* C25: the mask the preview returns is the mask apply_cleanliness multiplied
\* into the magnitudes of the same audio with the same arguments.
C25_PreviewIsApplied == preview_mask # <<>> => preview_mask = mask

\* C29: the overlap-add loop of tdpsola terminates: a call that has entered
\* the loop leaves it.
C29_LoopEnds == (pc = "tdpsola_loop") ~> (pc # "tdpsola_loop")

\* why it does: after k passes the synthesis centre has advanced by at least
\* 16 samples per pass without leaving the output, so k stays below
\* n_out / 16 + 2, and the model's cap on k is never met
C29_LoopBounded ==
    (sargs # <<>> /\ sargs.method = "tdpsola")
        => /\ 16 * (ola_k - 2) < n_out
           /\ ola_k < MaxIter

\* a call whose loop made several passes and then returned
C29_Witness ==
    /\ sargs # <<>> /\ sargs.method = "tdpsola"
    /\ pc = "done" /\ outcome = "stretched"
    /\ sargs.nsamples = 40
    /\ ola_k >= 5

\* C30: a MIDI number survives the trip to its name and back, a name made
\* of a sharp-spelled pitch class and an integer octave survives the trip to
\* its number and back, and A4 is 69, which is 440 Hz.
C30_RoundTrip ==
    /\ nt_dir = "number" => (nt_out.ok /\ nt_out.midi = nt_in)
    /\ (nt_dir = "name" /\ \E i \in 1..12, o \in (-MaxOctave)..MaxOctave :
                              nt_in = NOTE_NAMES_SHARP[i] \o FormatInt(o))
          => (nt_mid.ok /\ nt_out = nt_in)
    /\ (nt_dir = "name" /\ nt_in = <<"A", "4">>)
          => (nt_mid.midi = 69 /\ midi_to_freq(nt_mid.midi) = 440)
    /\ (nt_dir = "number" /\ nt_in = 69) => nt_mid = <<"A", "4">>

\* a negative number whose name has a negative octave
C30_Witness ==
    /\ nt_dir = "number"
    /\ nt_in = -14
    /\ nt_mid = <<"A", "#", "-", "3">>
    /\ nt_out.midi = -14

====
